---- MODULE Spec2Model ----
(***************************************************************************)
(* Model of the namebase-exchange Python client: the enumerations          *)
(* (enums.py), the request layer (utils.py), the typed endpoint surface    *)
(* of the Exchange class (exchange.py) and the streaming subscriber        *)
(* ExchangeWS (websocket_data.py).                                         *)
(*                                                                         *)
(* Python values are tagged tuples so that values of different Python      *)
(* types can sit in one parameter mapping and be compared:                 *)
(*   None           <<"None">>                                             *)
(*   an int/float   <<"int", n>>                                           *)
(*   a str          <<"str", s>>                                           *)
(*   an Enum member <<"enum", class, name>>                                *)
(*   a dict         <<"dict", f>>, f a function from key strings to values *)
(* Character strings that are computed character by character (the         *)
(* credentials) are sequences of code points.                              *)
(***************************************************************************)
EXTENDS Integers, Sequences, FiniteSets, TLC

VARIABLES request, clock, pc, call, sent, resp, outcome, prev, frame, ws

vars == <<request, clock, pc, call, sent, resp, outcome, prev, frame, ws>>

(***************************************************************************)
(* Bounds of the model.                                                    *)
(***************************************************************************)
\* the wall clock runs from 0 to MaxClock, in units of 1/1024 second
MaxClock == 1
\* ids, limits and trade ids range over 0..MaxNum
MaxNum == 0

\* the longest access key and secret key, in characters
MaxKeyLen == 2

\* the threads that call one client concurrently
MaxThreads == 2
\* the wall clock of the concurrent runs goes from 0 to MaxConcClock
MaxConcClock == 1
\* the frames that arrive on a streaming connection
MaxFrames == 2
\* the redirects a server answers one call with
MaxRedirects == 1

(***************************************************************************)
(* Python values.                                                          *)
(***************************************************************************)
None == <<"None">>

PyInt(n) == <<"int", n>>

PyStr(s) == <<"str", s>>

\* a float that is not a finite number: float("nan"), float("inf"),
\* float("-inf")
PyFloat(name) == <<"float", name>>

Member(cls, name) == <<"enum", cls, name>>

Dict(f) == <<"dict", f>>

\* the keys of a dict; a value that is no dict has none
Keys(d) == IF d[1] = "dict" THEN DOMAIN d[2] ELSE {}

\* d[k]
Get(d, k) == d[2][k]

\* d[k] = v
Put(d, k, v) ==
    Dict([n \in Keys(d) \cup {k} |-> IF n = k THEN v ELSE d[2][n]])

(***************************************************************************)
(* enums.py: each Enum class is the table from member name to wire value.  *)
(***************************************************************************)
Symbol == [HNSBTC |-> "HNSBTC"]

Asset == [HNS |-> "HNS", BTC |-> "BTC"]

OrderType == [LIMIT |-> "LMT", MARKET |-> "MKT"]

OrderSide == [BUY |-> "BUY", SELL |-> "SELL"]

\* the Interval table with FIFTEEN_MINUTES valued as FIVE_MINUTES
FifteenAsFive ==
    [ONE_MINUTE |-> "1m", FIVE_MINUTES |-> "5m", FIFTEEN_MINUTES |-> "5m",
     ONE_HOUR |-> "1h", FOUR_HOURS |-> "4h", TWELVE_HOURS |-> "12h",
     ONE_DAY |-> "1d", ONE_WEEK |-> "1w"]

Interval ==
    [ONE_MINUTE |-> "1m", FIVE_MINUTES |-> "5m", FIFTEEN_MINUTES |-> "15m",
     ONE_HOUR |-> "1h", FOUR_HOURS |-> "4h", TWELVE_HOURS |-> "12h",
     ONE_DAY |-> "1d", ONE_WEEK |-> "1w"]

Endpoint ==
    [TRADES |-> "/ws/v0/stream/trades",
     KLINES_1m |-> "/ws/v0/ticker/kline_1m",
     KLINES_5m |-> "/ws/v0/ticker/kline_5m",
     KLINES_15m |-> "/ws/v0/ticker/kline_15m",
     KLINES_1h |-> "/ws/v0/ticker/kline_1h",
     KLINES_4h |-> "/ws/v0/ticker/kline_4h",
     KLINES_12h |-> "/ws/v0/ticker/kline_12h",
     KLINES_1d |-> "/ws/v0/ticker/kline_1d",
     KLINES_1w |-> "/ws/v0/ticker/kline_1w",
     PRICES |-> "/ws/v0/ticker/day",
     DEPTH |-> "/ws/v0/ticker/depth"]

EnumClass(cls) ==
    CASE cls = "Symbol" -> Symbol
      [] cls = "Asset" -> Asset
      [] cls = "OrderType" -> OrderType
      [] cls = "OrderSide" -> OrderSide
      [] cls = "Interval" -> Interval
      [] cls = "Endpoint" -> Endpoint

Members(cls) == {Member(cls, n) : n \in DOMAIN EnumClass(cls)}

\* member.value
value(m) == PyStr(EnumClass(m[2])[m[3]])

(***************************************************************************)
(* utils.py                                                                *)
(***************************************************************************)
\* round(x) of Python 3 for x = n/d, n >= 0, d > 0: to nearest, ties to even
Round(n, d) ==
    LET q == n \div d
        r == n % d
    IN IF 2 * r < d THEN q
       ELSE IF 2 * r > d THEN q + 1
       ELSE IF q % 2 = 0 THEN q ELSE q + 1

\* a timestamp captured once, at construction (clock 0)
CachedTime(t) == PyInt(0)

\* round(time.time() * 1000) when time.time() returns t/1024: a float holds
\* t/1024 and the product 1000 * t / 1024 exactly (both are multiples of
\* 1/128 far below 2^53), so the float that is rounded is that number itself
get_current_time_milliseconds(t) == PyInt(Round(1000 * t, 1024))

\* str.encode("latin-1"): one byte per code point
Latin1(cps) == cps

\* str.encode("utf-8") on a sequence of code points below 2048
RECURSIVE Utf8(_)
Utf8(cps) ==
    IF cps = <<>> THEN <<>>
    ELSE LET c == Head(cps)
         IN (IF c < 128 THEN <<c>>
             ELSE <<192 + (c \div 64), 128 + (c % 64)>>) \o Utf8(Tail(cps))

B64Alphabet ==
    <<"A","B","C","D","E","F","G","H","I","J","K","L","M","N","O","P",
      "Q","R","S","T","U","V","W","X","Y","Z","a","b","c","d","e","f",
      "g","h","i","j","k","l","m","n","o","p","q","r","s","t","u","v",
      "w","x","y","z","0","1","2","3","4","5","6","7","8","9","+","/">>

\* base64.b64encode(bytes).decode("utf-8"), as a string
RECURSIVE b64encode(_)
b64encode(bs) ==
    IF bs = <<>> THEN ""
    ELSE IF Len(bs) = 1 THEN
        B64Alphabet[(bs[1] \div 4) + 1] \o B64Alphabet[((bs[1] % 4) * 16) + 1]
            \o "=="
    ELSE IF Len(bs) = 2 THEN
        B64Alphabet[(bs[1] \div 4) + 1]
            \o B64Alphabet[((bs[1] % 4) * 16 + (bs[2] \div 16)) + 1]
            \o B64Alphabet[((bs[2] % 16) * 4) + 1] \o "="
    ELSE
        B64Alphabet[(bs[1] \div 4) + 1]
            \o B64Alphabet[((bs[1] % 4) * 16 + (bs[2] \div 16)) + 1]
            \o B64Alphabet[((bs[2] % 16) * 4 + (bs[3] \div 64)) + 1]
            \o B64Alphabet[(bs[3] % 64) + 1]
            \o b64encode(SubSeq(bs, 4, Len(bs)))

\* '{}:{}'.format(access_key, secret_key), 58 being the code point of ':'
encode_credentials(access_key, secret_key) ==
    b64encode(Utf8(access_key \o <<58>> \o secret_key))

\* Request.__init__
Request_init(api_base_url, headers, timeout) ==
    [url |-> api_base_url, timeout |-> timeout, headers |-> headers]

\* Request.get without headers=self.headers
Request_get_NoHeaders(self, path, params) ==
    [method |-> "GET", url |-> self.url \o path, params |-> params,
     data |-> None, json |-> None, timeout |-> PyInt(self.timeout),
     headers |-> <<>>]

\* the requests.get call of Request.get
Request_get(self, path, params) ==
    [method |-> "GET", url |-> self.url \o path, params |-> params,
     data |-> None, json |-> None, timeout |-> PyInt(self.timeout),
     headers |-> self.headers]

\* the requests.post call of Request.post (data and params left at None)
Request_post(self, path, json_data) ==
    [method |-> "POST", url |-> self.url \o path, params |-> None,
     data |-> None, json |-> json_data, timeout |-> PyInt(self.timeout),
     headers |-> self.headers]

\* the requests.delete call of Request.delete (params left at None)
Request_delete(self, path, json_data) ==
    [method |-> "DELETE", url |-> self.url \o path, params |-> None,
     data |-> None, json |-> json_data, timeout |-> PyInt(self.timeout),
     headers |-> self.headers]

\* the requests.get call of Request.status: no timeout is passed
Request_status(self) ==
    [method |-> "GET", url |-> self.url \o "/info", params |-> None,
     data |-> None, json |-> None, timeout |-> None,
     headers |-> self.headers]

(***************************************************************************)
(* exchange.py: the Exchange class.  self is the Request object held in    *)
(* self.request and t the wall clock at the time of the call; each method  *)
(* is the requests call it ends in.                                        *)
(***************************************************************************)
DEFAULT_API_ROOT == "https://www.namebase.io/api"

DEFAULT_API_VERSION == "/v0"

\* Exchange.__init__: the headers and the Request object
Exchange_init(access_key, secret_key, api_root, api_version) ==
    Request_init(api_root \o api_version,
                 ("Authorization" :>
                      ("Basic " \o encode_credentials(access_key, secret_key)))
                 @@ ("Accept" :> "application/json")
                 @@ ("Content-Type" :> "application/json"),
                 30)

\* if v is not None: api_params[k] = v
PutIfNotNone(d, k, v) == IF v # None THEN Put(d, k, v) ELSE d

get_exchange_info(self) == Request_get(self, "/info", None)

\* get_depth with the timestamp of the signed calls added
get_depth_Timestamp(self, symbol, limit) ==
    Request_get(self, "/depth",
                Dict([symbol |-> value(symbol), limit |-> limit,
                      timestamp |-> get_current_time_milliseconds(0)]))

get_depth(self, symbol, limit) ==
    Request_get(self, "/depth",
                Dict([symbol |-> value(symbol), limit |-> limit]))

get_trade(self, symbol, trade_id, limit, receive_window, t) ==
    LET api_params == Dict([symbol |-> value(symbol), limit |-> limit,
                       timestamp |-> get_current_time_milliseconds(t)])
        p1 == PutIfNotNone(api_params, "tradeId", trade_id)
        p2 == PutIfNotNone(p1, "receiveWindow", receive_window)
    IN Request_get(self, "/trade", p2)

\* "interval": interval puts the Enum member itself into the mapping
get_kline(self, symbol, interval, start_time, end_time, limit) ==
    LET api_params == Dict([symbol |-> value(symbol), interval |-> interval,
                       limit |-> limit])
        p1 == PutIfNotNone(api_params, "startTime", start_time)
        p2 == PutIfNotNone(p1, "endTime", end_time)
    IN Request_get(self, "/ticker/klines", p2)

get_ticker_day(self, symbol) ==
    Request_get(self, "/ticker/day", Dict([symbol |-> value(symbol)]))

get_ticker_price(self, symbol) ==
    Request_get(self, "/ticker/price", Dict([symbol |-> value(symbol)]))

get_ticker_book(self, symbol) ==
    Request_get(self, "/ticker/book", Dict([symbol |-> value(symbol)]))

get_ticker_supply(self, asset) ==
    Request_get(self, "/ticker/supply", Dict([asset |-> value(asset)]))

\* new_order with api_params['price'] = price done unconditionally
new_order_PriceAlways(self, symbol, side, order_type, quantity, price, receive_window, t) ==
    LET api_params == Dict([symbol |-> value(symbol), side |-> value(side),
                            type |-> value(order_type), quantity |-> quantity,
                            timestamp |-> get_current_time_milliseconds(t),
                            price |-> price])
    IN Request_post(self, "/order",
                    PutIfNotNone(api_params, "receiveWindow", receive_window))

\* new_order with quantity and price exchanged in the mapping
new_order_Swapped(self, symbol, side, order_type, quantity, price, receive_window, t) ==
    LET api_params == Dict([symbol |-> value(symbol), side |-> value(side),
                            type |-> value(order_type), quantity |-> price,
                            timestamp |-> get_current_time_milliseconds(t)])
        p1 == PutIfNotNone(api_params, "price", quantity)
        p2 == PutIfNotNone(p1, "receiveWindow", receive_window)
    IN Request_post(self, "/order", p2)

new_order(self, symbol, side, order_type, quantity, price, receive_window, t) ==
    LET api_params == Dict([symbol |-> value(symbol), side |-> value(side),
                       type |-> value(order_type), quantity |-> quantity,
                       timestamp |-> get_current_time_milliseconds(t)])
        p1 == PutIfNotNone(api_params, "price", price)
        p2 == PutIfNotNone(p1, "receiveWindow", receive_window)
    IN Request_post(self, "/order", p2)

get_order(self, symbol, order_id, receive_window, t) ==
    LET api_params == Dict([symbol |-> value(symbol), orderId |-> order_id,
                       timestamp |-> get_current_time_milliseconds(t)])
    IN Request_get(self, "/order",
                   PutIfNotNone(api_params, "receiveWindow", receive_window))

\* delete_order with its parameters in the query string
delete_order_Query(self, symbol, order_id, receive_window, t) ==
    LET api_params == Dict([symbol |-> value(symbol), orderId |-> order_id,
                       timestamp |-> get_current_time_milliseconds(t)])
    IN [Request_delete(self, "/order", None) EXCEPT
            !.params = PutIfNotNone(api_params, "receiveWindow",
                                    receive_window)]

delete_order(self, symbol, order_id, receive_window, t) ==
    LET api_params == Dict([symbol |-> value(symbol), orderId |-> order_id,
                       timestamp |-> get_current_time_milliseconds(t)])
    IN Request_delete(self, "/order",
                      PutIfNotNone(api_params, "receiveWindow", receive_window))

get_open_orders(self, symbol, receive_window, t) ==
    LET api_params == Dict([symbol |-> value(symbol),
                       timestamp |-> get_current_time_milliseconds(t)])
    IN Request_get(self, "/order/open",
                   PutIfNotNone(api_params, "receiveWindow", receive_window))

get_all_orders(self, symbol, order_id, limit, receive_window, t) ==
    LET api_params == Dict([symbol |-> value(symbol), limit |-> limit,
                       timestamp |-> get_current_time_milliseconds(t)])
        p1 == PutIfNotNone(api_params, "orderId", order_id)
        p2 == PutIfNotNone(p1, "receiveWindow", receive_window)
    IN Request_get(self, "/order/all", p2)

get_account_information(self, receive_window, t) ==
    LET api_params == Dict([timestamp |-> get_current_time_milliseconds(t)])
    IN Request_get(self, "/account",
                   PutIfNotNone(api_params, "receiveWindow", receive_window))

get_account_limits(self, receive_window, t) ==
    LET api_params == Dict([timestamp |-> get_current_time_milliseconds(t)])
    IN Request_get(self, "/account/limits",
                   PutIfNotNone(api_params, "receiveWindow", receive_window))

get_account_trades(self, symbol, trade_id, limit, receive_window, t) ==
    LET api_params == Dict([symbol |-> value(symbol), limit |-> limit,
                       timestamp |-> get_current_time_milliseconds(t)])
        p1 == PutIfNotNone(api_params, "tradeId", trade_id)
        p2 == PutIfNotNone(p1, "receiveWindow", receive_window)
    IN Request_get(self, "/trade/account", p2)

\* get_order_trades sent to the path of get_account_trades
get_order_trades_WrongPath(self, symbol, order_id, receive_window, t) ==
    LET api_params == Dict([symbol |-> value(symbol), orderId |-> order_id,
                       timestamp |-> get_current_time_milliseconds(t)])
    IN Request_get(self, "/trade/account",
                   PutIfNotNone(api_params, "receiveWindow", receive_window))

get_order_trades(self, symbol, order_id, receive_window, t) ==
    LET api_params == Dict([symbol |-> value(symbol), orderId |-> order_id,
                       timestamp |-> get_current_time_milliseconds(t)])
    IN Request_get(self, "/trade/order",
                   PutIfNotNone(api_params, "receiveWindow", receive_window))

generate_deposit_address(self, asset, receive_window, t) ==
    LET api_params == Dict([asset |-> value(asset),
                       timestamp |-> get_current_time_milliseconds(t)])
    IN Request_post(self, "/deposit/address",
                    PutIfNotNone(api_params, "receiveWindow", receive_window))

withdraw(self, asset, address, amount, receive_window, t) ==
    LET api_params == Dict([asset |-> value(asset), address |-> address,
                       amount |-> amount,
                       timestamp |-> get_current_time_milliseconds(t)])
    IN Request_post(self, "/withdraw",
                    PutIfNotNone(api_params, "receiveWindow", receive_window))

get_deposit_history(self, asset, start_time, end_time, receive_window, t) ==
    LET api_params == Dict([asset |-> value(asset),
                       timestamp |-> get_current_time_milliseconds(t)])
        p1 == PutIfNotNone(api_params, "startTime", start_time)
        p2 == PutIfNotNone(p1, "endTime", end_time)
        p3 == PutIfNotNone(p2, "receiveWindow", receive_window)
    IN Request_get(self, "/deposit/history", p3)

get_withdraw_history(self, asset, start_time, end_time, receive_window, t) ==
    LET api_params == Dict([asset |-> value(asset),
                       timestamp |-> get_current_time_milliseconds(t)])
        p1 == PutIfNotNone(api_params, "startTime", start_time)
        p2 == PutIfNotNone(p1, "endTime", end_time)
        p3 == PutIfNotNone(p2, "receiveWindow", receive_window)
    IN Request_get(self, "/withdraw/history", p3)

\* limit_sell handing new_order the price as quantity and the quantity as
\* price
limit_sell_Swapped(self, symbol, price, quantity, receive_window, t) ==
    new_order(self, symbol, Member("OrderSide", "SELL"),
              Member("OrderType", "LIMIT"), price, quantity, receive_window, t)

limit_sell(self, symbol, price, quantity, receive_window, t) ==
    new_order(self, symbol, Member("OrderSide", "SELL"),
              Member("OrderType", "LIMIT"), quantity, price, receive_window, t)

limit_buy(self, symbol, price, quantity, receive_window, t) ==
    new_order(self, symbol, Member("OrderSide", "BUY"),
              Member("OrderType", "LIMIT"), quantity, price, receive_window, t)

market_sell(self, symbol, quantity, receive_window, t) ==
    new_order(self, symbol, Member("OrderSide", "SELL"),
              Member("OrderType", "MARKET"), quantity, None, receive_window, t)

market_buy(self, symbol, quantity, receive_window, t) ==
    new_order(self, symbol, Member("OrderSide", "BUY"),
              Member("OrderType", "MARKET"), quantity, None, receive_window, t)

(***************************************************************************)
(* Call sites.  A call gives keyword arguments; Python binds them against  *)
(* the signature of the method: a parameter with no default that the call  *)
(* does not give makes the call raise TypeError before the body runs.      *)
(***************************************************************************)
\* the def lines: <<name>> is a parameter without default, <<name, d>> one
\* with default d
Signature(op) ==
    CASE op = "get_exchange_info" -> <<>>
      [] op = "get_depth" -> << <<"symbol">>, <<"limit", PyInt(100)>> >>
      [] op = "get_trade" ->
           << <<"symbol">>, <<"trade_id", None>>, <<"limit", PyInt(100)>>,
              <<"receive_window", None>> >>
      [] op = "get_kline" ->
           << <<"symbol">>, <<"interval">>, <<"start_time", None>>,
              <<"end_time", None>>, <<"limit", PyInt(100)>> >>
      [] op \in {"get_ticker_day", "get_ticker_price", "get_ticker_book"} ->
           << <<"symbol">> >>
      [] op = "get_ticker_supply" -> << <<"asset">> >>
      [] op = "new_order" ->
           << <<"symbol">>, <<"side">>, <<"order_type">>, <<"quantity">>,
              <<"price", None>>, <<"receive_window", None>> >>
      [] op \in {"get_order", "delete_order", "get_order_trades"} ->
           << <<"symbol">>, <<"order_id">>, <<"receive_window", None>> >>
      [] op = "get_open_orders" ->
           << <<"symbol">>, <<"receive_window", None>> >>
      [] op = "get_all_orders" ->
           << <<"symbol">>, <<"order_id", None>>, <<"limit", PyInt(100)>>,
              <<"receive_window", None>> >>
      [] op \in {"get_account_information", "get_account_limits"} ->
           << <<"receive_window", None>> >>
      [] op = "get_account_trades" ->
           << <<"symbol">>, <<"trade_id">>, <<"limit", PyInt(100)>>,
              <<"receive_window", None>> >>
      [] op = "generate_deposit_address" ->
           << <<"asset">>, <<"receive_window", None>> >>
      [] op = "withdraw" ->
           << <<"asset">>, <<"address">>, <<"amount">>,
              <<"receive_window", None>> >>
      [] op \in {"get_deposit_history", "get_withdraw_history"} ->
           << <<"asset">>, <<"start_time", None>>, <<"end_time", None>>,
              <<"receive_window", None>> >>
      [] op \in {"limit_sell", "limit_buy"} ->
           << <<"symbol">>, <<"price">>, <<"quantity">>,
              <<"receive_window">> >>
      [] op \in {"market_sell", "market_buy"} ->
           << <<"symbol">>, <<"quantity">>, <<"receive_window">> >>
      [] op = "status" -> <<>>

ParamNames(op) == {Signature(op)[i][1] : i \in DOMAIN Signature(op)}

Required(op) ==
    {Signature(op)[i][1] : i \in {j \in DOMAIN Signature(op) :
                                      Len(Signature(op)[j]) = 1}}

DefaultOf(op, name) ==
    LET i == CHOOSE j \in DOMAIN Signature(op) : Signature(op)[j][1] = name
    IN Signature(op)[i][2]

\* a call that binds only if none of its numbers is negative
Binds_Validating(op, kwargs) ==
    /\ Required(op) \subseteq DOMAIN kwargs
    /\ \A n \in DOMAIN kwargs : kwargs[n][1] = "int" => kwargs[n][2] >= 0

\* does the call bind (no TypeError: missing required argument)?
Binds(op, kwargs) == Required(op) \subseteq DOMAIN kwargs

\* the local variables of the method body once the call has bound
Bind(op, kwargs) ==
    [n \in ParamNames(op) |->
        IF n \in DOMAIN kwargs THEN kwargs[n] ELSE DefaultOf(op, n)]

\* the method body on the bound arguments a
Exchange_call(self, op, a, t) ==
    CASE op = "get_exchange_info" -> get_exchange_info(self)
      [] op = "get_depth" -> get_depth(self, a.symbol, a.limit)
      [] op = "get_trade" ->
           get_trade(self, a.symbol, a.trade_id, a.limit, a.receive_window, t)
      [] op = "get_kline" ->
           get_kline(self, a.symbol, a.interval, a.start_time, a.end_time,
                     a.limit)
      [] op = "get_ticker_day" -> get_ticker_day(self, a.symbol)
      [] op = "get_ticker_price" -> get_ticker_price(self, a.symbol)
      [] op = "get_ticker_book" -> get_ticker_book(self, a.symbol)
      [] op = "get_ticker_supply" -> get_ticker_supply(self, a.asset)
      [] op = "new_order" ->
           new_order(self, a.symbol, a.side, a.order_type, a.quantity,
                     a.price, a.receive_window, t)
      [] op = "get_order" ->
           get_order(self, a.symbol, a.order_id, a.receive_window, t)
      [] op = "delete_order" ->
           delete_order(self, a.symbol, a.order_id, a.receive_window, t)
      [] op = "get_open_orders" ->
           get_open_orders(self, a.symbol, a.receive_window, t)
      [] op = "get_all_orders" ->
           get_all_orders(self, a.symbol, a.order_id, a.limit,
                          a.receive_window, t)
      [] op = "get_account_information" ->
           get_account_information(self, a.receive_window, t)
      [] op = "get_account_limits" ->
           get_account_limits(self, a.receive_window, t)
      [] op = "get_account_trades" ->
           get_account_trades(self, a.symbol, a.trade_id, a.limit,
                              a.receive_window, t)
      [] op = "get_order_trades" ->
           get_order_trades(self, a.symbol, a.order_id, a.receive_window, t)
      [] op = "generate_deposit_address" ->
           generate_deposit_address(self, a.asset, a.receive_window, t)
      [] op = "withdraw" ->
           withdraw(self, a.asset, a.address, a.amount, a.receive_window, t)
      [] op = "get_deposit_history" ->
           get_deposit_history(self, a.asset, a.start_time, a.end_time,
                               a.receive_window, t)
      [] op = "get_withdraw_history" ->
           get_withdraw_history(self, a.asset, a.start_time, a.end_time,
                                a.receive_window, t)
      [] op = "limit_sell" ->
           limit_sell(self, a.symbol, a.price, a.quantity, a.receive_window, t)
      [] op = "limit_buy" ->
           limit_buy(self, a.symbol, a.price, a.quantity, a.receive_window, t)
      [] op = "market_sell" ->
           market_sell(self, a.symbol, a.quantity, a.receive_window, t)
      [] op = "market_buy" ->
           market_buy(self, a.symbol, a.quantity, a.receive_window, t)
      [] op = "status" -> Request_status(self)

(***************************************************************************)
(* The response half of Request.get / post / delete / status.  A response  *)
(* is [status_code, body]; a body is <<"json", v>>, the JSON text of the   *)
(* value v, or <<"text", n>>, text that is not JSON (empty for n = 0);      *)
(* location is its Location header, "" when it has none.                   *)
(*                                                                         *)
(* requests.get, requests.post and requests.delete are called with         *)
(* allow_redirects at its default, True: a response that is a redirect is  *)
(* answered inside the same call with a further request (requests          *)
(* Session.resolve_redirects), and json=... is serialised with             *)
(* allow_nan=False before anything is sent (requests 2.26 and later).      *)
(***************************************************************************)
NoResponse == [status_code |-> 0, body |-> <<"text", 0>>, location |-> ""]

NoOutcome ==
    [kind |-> "none", exc |-> "", response |-> NoResponse, value |-> None]

Raise(exc, r) ==
    [kind |-> "raise", exc |-> exc, response |-> r, value |-> None]

Return(v) ==
    [kind |-> "return", exc |-> "", response |-> NoResponse, value |-> v]

\* raise_for_status raising on 4xx only
RaisesOnlyClientErrors(r) == 400 <= r.status_code /\ r.status_code < 500

\* r.raise_for_status() raises HTTPError for 400 <= status_code < 600
raise_for_status(r) == 400 <= r.status_code /\ r.status_code < 600

\* requests: Response.is_redirect
is_redirect(r) ==
    r.location # "" /\ r.status_code \in {301, 302, 303, 307, 308}

\* requests: Session.max_redirects
DEFAULT_REDIRECT_LIMIT == 30

\* requests: Session.rebuild_method
rebuild_method(method, status_code) ==
    IF status_code = 303 /\ method # "HEAD" THEN "GET"
    ELSE IF status_code = 302 /\ method # "HEAD" THEN "GET"
    ELSE IF status_code = 301 /\ method = "POST" THEN "GET"
    ELSE method

\* the schemes, host names and ports of the URLs of the model; port 0 is
\* that of a URL that names no port
Schemes == {"http", "https"}

Hostnames == {"www.namebase.io", "localhost", "elsewhere.test"}

Ports == {0, 80, 443, 8080}

\* the paths of the URLs of the model
UrlPaths ==
    {"/y"} \cup
    { root \o path :
        root \in {"/api/v0", "/api/v1"},
        path \in {"/info", "/depth", "/trade", "/ticker/klines",
                  "/ticker/day", "/ticker/price", "/ticker/book",
                  "/ticker/supply", "/order", "/order/open", "/order/all",
                  "/account", "/account/limits", "/trade/account",
                  "/trade/order", "/deposit/address", "/withdraw",
                  "/deposit/history", "/withdraw/history"} }

\* the text of a port after the host name
PortText(port) ==
    CASE port = 0 -> ""
      [] port = 80 -> ":80"
      [] port = 443 -> ":443"
      [] port = 8080 -> ":8080"

\* urlunparse: the URL of a scheme, host name, port and path
urlunparse(u) ==
    u.scheme \o "://" \o u.hostname \o PortText(u.port) \o u.path

\* the parts of each URL of the model
UrlTable ==
    LET parts == [scheme : Schemes, hostname : Hostnames, port : Ports,
                  path : UrlPaths]
    IN [url \in {urlunparse(u) : u \in parts} |->
           CHOOSE u \in parts : urlunparse(u) = url]

\* urlparse: the scheme, host name, port and path of a URL
urlparse(url) == UrlTable[url]

\* requests: DEFAULT_PORTS
DEFAULT_PORTS(scheme) == IF scheme = "http" THEN 80 ELSE 443

\* requests: Session.should_strip_auth.  Authorization is removed when the
\* host name changes; it is kept on a redirect from http to https on the
\* standard ports, and when scheme and port stay the same, the default port
\* written out or not
should_strip_auth(old_url, new_url) ==
    LET old_parsed == urlparse(old_url)
        new_parsed == urlparse(new_url)
        changed_port == old_parsed.port # new_parsed.port
        changed_scheme == old_parsed.scheme # new_parsed.scheme
        default_port == {DEFAULT_PORTS(old_parsed.scheme), 0}
    IN IF old_parsed.hostname # new_parsed.hostname THEN TRUE
       ELSE IF /\ old_parsed.scheme = "http"
               /\ old_parsed.port \in {80, 0}
               /\ new_parsed.scheme = "https"
               /\ new_parsed.port \in {443, 0}
       THEN FALSE
       ELSE IF /\ ~changed_scheme
               /\ old_parsed.port \in default_port
               /\ new_parsed.port \in default_port
       THEN FALSE
       ELSE changed_port \/ changed_scheme

\* the headers without those named
Without(headers, names) ==
    [h \in DOMAIN headers \ names |-> headers[h]]

\* requests: Session.resolve_redirects, the request that follows request rq
\* answered by the redirect r: to the Location, without query parameters
\* of its own, with the method rebuilt, without body and content headers
\* unless the status is 307 or 308, and without Authorization when
\* should_strip_auth says so.  (The environment has no .netrc entry for the
\* hosts: requests would send the credentials of such an entry instead.)
resolve_redirects(rq, r) ==
    LET keep == r.status_code \in {307, 308}
        purged == (IF keep THEN {}
                   ELSE {"Content-Length", "Content-Type",
                         "Transfer-Encoding"})
                  \cup {"Cookie"}
                  \cup (IF should_strip_auth(rq.url, r.location)
                        THEN {"Authorization"} ELSE {})
    IN [method |-> rebuild_method(rq.method, r.status_code),
        url |-> r.location,
        params |-> None,
        data |-> None,
        json |-> IF keep THEN rq.json ELSE None,
        timeout |-> rq.timeout,
        headers |-> Without(rq.headers, purged)]

\* json.dumps(..., allow_nan=False) accepts the mapping
JsonCompliant(d) == \A k \in Keys(d) : Get(d, k)[1] # "float"

\* the error swallowed: None is returned instead
Request_result_Swallow(r) ==
    IF raise_for_status(r) THEN Return(None)
    ELSE IF r.body[1] = "json" THEN Return(r.body[2])
    ELSE Raise("JSONDecodeError", NoResponse)

\* r.raise_for_status(); return r.json()
Request_result(r) ==
    IF raise_for_status(r) THEN Raise("HTTPError", r)
    ELSE IF r.body[1] = "json" THEN Return(r.body[2])
    ELSE Raise("JSONDecodeError", NoResponse)

\* http.client, HTTPResponse.begin: a response with status 1xx, 204 or 304
\* has a body of length 0, whatever the server sends after its headers
NoBodyStatus(status_code) ==
    \/ 100 <= status_code /\ status_code < 200
    \/ status_code \in {204, 304}

\* the response r as http.client hands it to requests
Delivered(r) ==
    IF NoBodyStatus(r.status_code) THEN [r EXCEPT !.body = <<"text", 0>>]
    ELSE r

\* the outcome of the requests call answered with r from the wire: a 100
\* Continue is no final response, http.client skips it and finds no
\* response after it; any other response is handed over as delivered
Answered(r) ==
    IF r.status_code = 100 THEN Raise("ConnectionError", NoResponse)
    ELSE Request_result(Delivered(r))

(***************************************************************************)
(* websocket_data.py.  A function is the tagged tuple <<"function", name>>.*)
(* ws is the WebSocketApp object the subscriber builds, together with what *)
(* happens on it: connects, the URLs it has opened a connection to; wire,  *)
(* the messages it has sent; arrived, the frames, errors and closure that  *)
(* have arrived on the connection; log, the handler calls made, each with  *)
(* the handler called, the event handed to it and whether the call raised. *)
(* WebSocketApp is the class of the websocket-client package the module    *)
(* imports; the package is no part of the repository and setup.py names no *)
(* version of it, so the installed version is a choice of the environment. *)
(***************************************************************************)
PyFunc(name) == <<"function", name>>

\* the module-level default handlers
_on_message == PyFunc("_on_message")

_on_error == PyFunc("_on_error")

_on_close == PyFunc("_on_close")

base_wss_url == "wss://app.namebase.io:443"

\* the def line of ExchangeWS.__init__: the defaults of the handlers
ExchangeWS_defaults ==
    [on_message |-> _on_message, on_error |-> _on_error,
     on_close |-> _on_close]

\* the parameters of ExchangeWS.__init__ once the call has bound
ExchangeWS_Bind(kwargs) ==
    [n \in {"endpoint", "on_message", "on_error", "on_close"} |->
        IF n \in DOMAIN kwargs THEN kwargs[n] ELSE ExchangeWS_defaults[n]]

\* no WebSocketApp yet
NoWS ==
    [url |-> "", on_message |-> None, on_error |-> None, on_close |-> None,
     connects |-> <<>>, wire |-> <<>>, arrived |-> <<>>, log |-> <<>>]

\* ExchangeWS.__init__ up to the WebSocketApp it builds: self.on_message,
\* self.on_error and self.on_close hold the parameters and are passed on
ExchangeWS_init(endpoint, on_message, on_error, on_close) ==
    [NoWS EXCEPT !.url = base_wss_url \o value(endpoint)[2],
                 !.on_message = on_message,
                 !.on_error = on_error,
                 !.on_close = on_close]

\* what arrives on a connection
TextFrame(data) == [kind |-> "frame", data |-> data]

TransportError == [kind |-> "error", data |-> "error"]

Closure == [kind |-> "close", data |-> ""]

\* a handler raised: what the library hands to on_error in its place
HandlerError(exc) == [kind |-> "error", data |-> exc]

\* the number of parameters of a handler: those of the module defaults are
\* on their def lines; a caller's handlers take what the library passes
Parameters(handler) ==
    CASE handler = _on_message -> 2
      [] handler = _on_error -> 2
      [] handler = _on_close -> 1
      [] handler = PyFunc("on_message") -> 2
      [] handler = PyFunc("on_error") -> 2
      [] handler = PyFunc("on_close") -> 3

\* the websocket-client releases: those before 1.0 and those from 1.0 on
WebSocketClients == {"0.x", "1.x"}

\* the number of arguments WebSocketApp calls a handler with: the app and
\* the frame or the error; for the closure the app, the status code and the
\* reason, where a release before 1.0 passes the app alone to an on_close
\* that does not take three parameters
HandlerArgs(app, library, event) ==
    IF event.kind = "close"
    THEN IF library = "0.x" /\ Parameters(app.on_close) # 3 THEN 1 ELSE 3
    ELSE 2

\* WebSocketApp._callback: the handler given for the kind of event is
\* called; a call with the wrong number of arguments raises TypeError,
\* which the library logs and, from release 1.0 on, hands to on_error
Dispatch(app, library, event) ==
    LET handler == CASE event.kind = "frame" -> app.on_message
                     [] event.kind = "error" -> app.on_error
                     [] event.kind = "close" -> app.on_close
        raised == HandlerArgs(app, library, event) # Parameters(handler)
        made == [handler |-> handler, event |-> event, raised |-> raised]
    IN IF raised /\ library = "1.x"
       THEN <<made, [handler |-> app.on_error,
                     event |-> HandlerError("TypeError"),
                     raised |-> Parameters(app.on_error) # 2]>>
       ELSE <<made>>

(***************************************************************************)
(* The inputs of the model.                                                *)
(***************************************************************************)
Nums == {PyInt(n) : n \in 0..MaxNum}

OptNums == Nums \cup {None}

\* the floats that are not numbers of JSON
Floats == {PyFloat("nan")}

\* the prices, quantities and amounts: numbers, a negative one among them,
\* and the floats that are not numbers
Amounts == {PyInt(0), PyInt(-1)} \cup Floats

\* the receive windows and the times of a kline query
OptWindow == {None, PyInt(0)}

\* the times of a history query: start_time after end_time among them
OptTimes == {None, PyInt(0), PyInt(1)}

Addresses == {PyStr("addr")}

\* the argument is not given at the call site
Omitted == <<"omitted">>

Arg(D) == D \cup {Omitted}

\* the keyword arguments of a call: the given ones
Kw(r) == [n \in {k \in DOMAIN r : r[k] # Omitted} |-> r[n]]

\* the constructor calls: Exchange("a", "b") with the default api_root and
\* api_version, and Exchange("", ":", "http://localhost/api", "/v1");
\* the keys are sequences of code points
Constructions ==
    { [access_key |-> <<97>>, secret_key |-> <<98>>,
       api_root |-> DEFAULT_API_ROOT, api_version |-> DEFAULT_API_VERSION],
      [access_key |-> <<>>, secret_key |-> <<58>>,
       api_root |-> "http://localhost/api", api_version |-> "/v1"] }

\* their key pairs: ("a", "b") and ("", ":")
Credentials == { <<c.access_key, c.secret_key>> : c \in Constructions }

\* the status codes of the responses that carry no Location: the ends of
\* the classes, 100, 101, 204 and 304, which deliver no body, and 302, which
\* without a Location is no redirect
StatusCodes == {100, 101, 200, 204, 299, 302, 304, 399, 400, 599, 600}

Bodies == { <<"json", PyStr("not found")>>, <<"text", 0>> }

Responses ==
    { r \in [status_code : StatusCodes, body : Bodies, location : {""}] :
        r.body[1] = "text" => r.status_code = 200 }

\* the other host of the model
Elsewhere == "http://elsewhere.test/y"

\* the URL with the other scheme
OtherScheme(url) ==
    urlunparse([urlparse(url) EXCEPT
                   !.scheme = IF @ = "http" THEN "https" ELSE "http"])

\* the redirects the API answers any request with: a 302 to another host
\* and a 307 to the /info of the client's base URL
Redirects(self) ==
    { [status_code |-> 302, body |-> <<"text", 0>>, location |-> Elsewhere],
      [status_code |-> 307, body |-> <<"text", 0>>,
       location |-> self.url \o "/info"] }

\* the redirects it answers the first request of some operations with as
\* well: a 301 and a 303 to the other host, and a 308 to its own /info
\* under the other scheme
MoreRedirects(self) ==
    { [status_code |-> 301, body |-> <<"text", 0>>, location |-> Elsewhere],
      [status_code |-> 303, body |-> <<"text", 0>>, location |-> Elsewhere],
      [status_code |-> 308, body |-> <<"text", 0>>,
       location |-> OtherScheme(self.url \o "/info")] }

\* the operations answered with those: a GET, a POST and a DELETE
MoreRedirectsOps == {"get_ticker_day", "market_sell", "delete_order"}

\* the operation the API keeps redirecting for as long as the client
\* follows
RedirectLoopOps == {"get_exchange_info"}

\* the redirects offered to the call of operation op that has sent the
\* requests chain: the other host redirects no further, and the API stops
\* after MaxRedirects redirects except in the redirect loop
RedirectsFor(self, op, chain) ==
    IF chain[Len(chain)].url = Elsewhere THEN {}
    ELSE (IF Len(chain) <= MaxRedirects \/ op \in RedirectLoopOps
          THEN Redirects(self) ELSE {})
         \cup (IF Len(chain) = 1 /\ op \in MoreRedirectsOps
               THEN MoreRedirects(self) ELSE {})

NoCall == [op |-> "", kwargs |-> <<>>, t |-> 0]

NoPrev == [t |-> 0, timestamp |-> None]

(***************************************************************************)
(* The state machine.  request is the Request object of the client, clock  *)
(* the wall clock, call the invocation in progress, sent the HTTP requests *)
(* it has issued, resp the response it got, outcome what reaches its       *)
(* caller, and prev the timestamp of the call before it (kept until the    *)
(* response to the next call arrives).                                     *)
(***************************************************************************)
Init ==
    /\ \E c \in Constructions :
           request = Exchange_init(c.access_key, c.secret_key, c.api_root,
                                   c.api_version)
    /\ clock = 0
    /\ pc = "idle"
    /\ call = NoCall
    /\ sent = <<>>
    /\ resp = NoResponse
    /\ outcome = NoOutcome
    /\ prev = NoPrev
    /\ frame = <<>>
    /\ ws = NoWS

\* a call of method op with keyword arguments kwargs, up to the point where
\* it waits for the response
\* a method call up to the point where it waits for the response: the
\* arguments are bound (TypeError when one without default is missing), the
\* body builds its mapping, and requests sends the request unless it cannot
\* serialise the JSON body (InvalidJSONError)
Start(op, kwargs) ==
    /\ pc = "idle"
    /\ call' = [op |-> op, kwargs |-> kwargs, t |-> clock]
    /\ IF ~Binds(op, kwargs)
       THEN /\ sent' = <<>>
            /\ outcome' = Raise("TypeError", NoResponse)
            /\ pc' = "done"
            /\ prev' = NoPrev
       ELSE LET rq == Exchange_call(request, op, Bind(op, kwargs), clock)
            IN IF rq.json # None /\ ~JsonCompliant(rq.json)
               THEN /\ sent' = <<>>
                    /\ outcome' = Raise("InvalidJSONError", NoResponse)
                    /\ pc' = "done"
                    /\ prev' = NoPrev
               ELSE /\ sent' = <<rq>>
                    /\ outcome' = NoOutcome
                    /\ pc' = "sent"
                    /\ prev' = prev
    /\ UNCHANGED frame
    /\ UNCHANGED ws
    /\ UNCHANGED <<clock, resp>>

\* a call that blanks the credentials of the client once it has used them
Invoke_DropsCredentials(op, kwargs) ==
    /\ Start(op, kwargs)
    /\ request' = [request EXCEPT !.headers["Authorization"] = "Basic "]

\* a call of method op with keyword arguments kwargs; the client object is
\* only read
Invoke(op, kwargs) ==
    /\ Start(op, kwargs)
    /\ request' = request

call_get_exchange_info == Invoke("get_exchange_info", <<>>)

call_get_depth ==
    \E symbol \in Members("Symbol"), limit \in Arg(Nums) :
        Invoke("get_depth", Kw([symbol |-> symbol, limit |-> limit]))

call_get_trade ==
    \E symbol \in Members("Symbol"), trade_id \in Arg(OptNums),
       limit \in Arg(Nums), receive_window \in Arg(OptWindow) :
        Invoke("get_trade",
               Kw([symbol |-> symbol, trade_id |-> trade_id, limit |-> limit,
                   receive_window |-> receive_window]))

call_get_kline ==
    \E symbol \in Members("Symbol"), interval \in Members("Interval"),
       start_time \in Arg(OptWindow), end_time \in Arg(OptWindow),
       limit \in Arg(Nums) :
        Invoke("get_kline",
               Kw([symbol |-> symbol, interval |-> interval,
                   start_time |-> start_time, end_time |-> end_time,
                   limit |-> limit]))

call_get_ticker_day ==
    \E symbol \in Members("Symbol") :
        Invoke("get_ticker_day", Kw([symbol |-> symbol]))

call_get_ticker_price ==
    \E symbol \in Members("Symbol") :
        Invoke("get_ticker_price", Kw([symbol |-> symbol]))

call_get_ticker_book ==
    \E symbol \in Members("Symbol") :
        Invoke("get_ticker_book", Kw([symbol |-> symbol]))

call_get_ticker_supply ==
    \E asset \in Members("Asset") :
        Invoke("get_ticker_supply", Kw([asset |-> asset]))

call_new_order ==
    \E symbol \in Members("Symbol"), side \in Members("OrderSide"),
       order_type \in Members("OrderType"), quantity \in Amounts,
       price \in Arg(Amounts \cup {None}),
       receive_window \in Arg(OptWindow) :
        Invoke("new_order",
               Kw([symbol |-> symbol, side |-> side,
                   order_type |-> order_type, quantity |-> quantity,
                   price |-> price, receive_window |-> receive_window]))

call_get_order ==
    \E symbol \in Members("Symbol"), order_id \in Nums,
       receive_window \in Arg(OptWindow) :
        Invoke("get_order",
               Kw([symbol |-> symbol, order_id |-> order_id,
                   receive_window |-> receive_window]))

call_delete_order ==
    \E symbol \in Members("Symbol"), order_id \in Nums \cup Floats,
       receive_window \in Arg(OptWindow) :
        Invoke("delete_order",
               Kw([symbol |-> symbol, order_id |-> order_id,
                   receive_window |-> receive_window]))

call_get_open_orders ==
    \E symbol \in Members("Symbol"), receive_window \in Arg(OptWindow) :
        Invoke("get_open_orders",
               Kw([symbol |-> symbol, receive_window |-> receive_window]))

call_get_all_orders ==
    \E symbol \in Members("Symbol"), order_id \in Arg(OptNums),
       limit \in Arg(Nums), receive_window \in Arg(OptWindow) :
        Invoke("get_all_orders",
               Kw([symbol |-> symbol, order_id |-> order_id, limit |-> limit,
                   receive_window |-> receive_window]))

call_get_account_information ==
    \E receive_window \in Arg(OptWindow) :
        Invoke("get_account_information",
               Kw([receive_window |-> receive_window]))

call_get_account_limits ==
    \E receive_window \in Arg(OptWindow) :
        Invoke("get_account_limits", Kw([receive_window |-> receive_window]))

call_get_account_trades ==
    \E symbol \in Members("Symbol"), trade_id \in Arg(OptNums),
       limit \in Arg(Nums), receive_window \in Arg(OptWindow) :
        Invoke("get_account_trades",
               Kw([symbol |-> symbol, trade_id |-> trade_id, limit |-> limit,
                   receive_window |-> receive_window]))

call_get_order_trades ==
    \E symbol \in Members("Symbol"), order_id \in Nums,
       receive_window \in Arg(OptWindow) :
        Invoke("get_order_trades",
               Kw([symbol |-> symbol, order_id |-> order_id,
                   receive_window |-> receive_window]))

call_generate_deposit_address ==
    \E asset \in Members("Asset"), receive_window \in Arg(OptWindow) :
        Invoke("generate_deposit_address",
               Kw([asset |-> asset, receive_window |-> receive_window]))

call_withdraw ==
    \E asset \in Members("Asset"), address \in Addresses,
       amount \in Amounts,
       receive_window \in Arg(OptWindow) :
        Invoke("withdraw",
               Kw([asset |-> asset, address |-> address, amount |-> amount,
                   receive_window |-> receive_window]))

call_get_deposit_history ==
    \E asset \in Members("Asset"), start_time \in Arg(OptTimes),
       end_time \in Arg(OptTimes), receive_window \in Arg(OptWindow) :
        Invoke("get_deposit_history",
               Kw([asset |-> asset, start_time |-> start_time,
                   end_time |-> end_time,
                   receive_window |-> receive_window]))

call_get_withdraw_history ==
    \E asset \in Members("Asset"), start_time \in Arg(OptTimes),
       end_time \in Arg(OptTimes), receive_window \in Arg(OptWindow) :
        Invoke("get_withdraw_history",
               Kw([asset |-> asset, start_time |-> start_time,
                   end_time |-> end_time,
                   receive_window |-> receive_window]))

call_limit_sell ==
    \E symbol \in Members("Symbol"), price \in Amounts,
       quantity \in Amounts,
       receive_window \in Arg(OptWindow) :
        Invoke("limit_sell",
               Kw([symbol |-> symbol, price |-> price, quantity |-> quantity,
                   receive_window |-> receive_window]))

call_limit_buy ==
    \E symbol \in Members("Symbol"), price \in Amounts,
       quantity \in Amounts,
       receive_window \in Arg(OptWindow) :
        Invoke("limit_buy",
               Kw([symbol |-> symbol, price |-> price, quantity |-> quantity,
                   receive_window |-> receive_window]))

call_market_sell ==
    \E symbol \in Members("Symbol"), quantity \in Amounts,
       receive_window \in Arg(OptWindow) :
        Invoke("market_sell",
               Kw([symbol |-> symbol, quantity |-> quantity,
                   receive_window |-> receive_window]))

call_market_buy ==
    \E symbol \in Members("Symbol"), quantity \in Amounts,
       receive_window \in Arg(OptWindow) :
        Invoke("market_buy",
               Kw([symbol |-> symbol, quantity |-> quantity,
                   receive_window |-> receive_window]))

call_status == Invoke("status", <<>>)

\* a response arrives: a redirect is followed by a further request of the
\* same call; of any other response raise_for_status and json decide what
\* the caller gets
Receive ==
    /\ pc = "sent"
    /\ \E r \in Responses \cup RedirectsFor(request, call.op, sent) :
           /\ resp' = r
           /\ IF ~is_redirect(r)
              THEN /\ outcome' = Answered(r)
                   /\ pc' = "done"
                   /\ sent' = sent
              ELSE IF Len(sent) > DEFAULT_REDIRECT_LIMIT
              THEN /\ outcome' = Raise("TooManyRedirects", r)
                   /\ pc' = "done"
                   /\ sent' = sent
              ELSE /\ outcome' = outcome
                   /\ pc' = "sent"
                   /\ sent' = Append(sent,
                                     resolve_redirects(sent[Len(sent)], r))
    /\ prev' = NoPrev
    /\ UNCHANGED frame
    /\ UNCHANGED ws
    /\ UNCHANGED <<request, clock, call>>

\* a transport fault answered by sending the request again
TransportFault_Retry ==
    /\ pc = "sent"
    /\ Len(sent) < 3
    /\ sent' = Append(sent, sent[1])
    /\ UNCHANGED frame
    /\ UNCHANGED ws
    /\ UNCHANGED <<request, clock, pc, call, resp, outcome, prev>>

\* no response arrives: requests raises its own ConnectionError or Timeout
TransportFault ==
    /\ pc = "sent"
    /\ outcome' = Raise("ConnectionError", NoResponse)
    /\ pc' = "done"
    /\ prev' = NoPrev
    /\ UNCHANGED frame
    /\ UNCHANGED ws
    /\ UNCHANGED <<request, clock, call, sent, resp>>

\* the timestamp the request carries, in params or in the JSON body
TimestampOf(rq) ==
    IF "timestamp" \in Keys(rq.params) THEN Get(rq.params, "timestamp")
    ELSE IF "timestamp" \in Keys(rq.json) THEN Get(rq.json, "timestamp")
    ELSE None

\* the caller has the result or the exception; the parameter mapping and the
\* response of the call are gone
Finish ==
    /\ pc = "done"
    /\ prev' = IF sent # <<>> /\ TimestampOf(sent[1]) # None
               THEN [t |-> call.t, timestamp |-> TimestampOf(sent[1])]
               ELSE NoPrev
    /\ call' = NoCall
    /\ sent' = <<>>
    /\ resp' = NoResponse
    /\ outcome' = NoOutcome
    /\ pc' = "idle"
    /\ UNCHANGED frame
    /\ UNCHANGED ws
    /\ UNCHANGED <<request, clock>>

\* the wall clock advances between two calls (a call reads it once, when it
\* builds its parameters)
Tick ==
    /\ pc = "idle"
    /\ clock < MaxClock
    /\ clock' = clock + 1
    /\ UNCHANGED frame
    /\ UNCHANGED ws
    /\ UNCHANGED <<request, pc, call, sent, resp, outcome, prev>>

Next ==
    \/ call_get_exchange_info
    \/ call_get_depth
    \/ call_get_trade
    \/ call_get_kline
    \/ call_get_ticker_day
    \/ call_get_ticker_price
    \/ call_get_ticker_book
    \/ call_get_ticker_supply
    \/ call_new_order
    \/ call_get_order
    \/ call_delete_order
    \/ call_get_open_orders
    \/ call_get_all_orders
    \/ call_get_account_information
    \/ call_get_account_limits
    \/ call_get_account_trades
    \/ call_get_order_trades
    \/ call_generate_deposit_address
    \/ call_withdraw
    \/ call_get_deposit_history
    \/ call_get_withdraw_history
    \/ call_limit_sell
    \/ call_limit_buy
    \/ call_market_sell
    \/ call_market_buy
    \/ call_status
    \/ Receive
    \/ TransportFault
    \/ Finish
    \/ Tick

Spec == Init /\ [][Next]_vars

(***************************************************************************)
(* Construction on its own: Exchange(access_key, secret_key) for every     *)
(* pair of keys over ':', 'a' and U+00E9 of at most MaxKeyLen characters.  *)
(***************************************************************************)
KeyChars == {58, 97, 233}

KeyStrings(n) == UNION { [1..k -> KeyChars] : k \in 0..n }

\* the client object before __init__ has run
NoRequest == Request_init("", <<>>, None)

InitCred ==
    /\ \E a \in KeyStrings(MaxKeyLen), s \in KeyStrings(MaxKeyLen) :
           call = [op |-> "__init__",
                   kwargs |-> [access_key |-> a, secret_key |-> s],
                   t |-> 0]
    /\ request = NoRequest
    /\ clock = 0 /\ pc = "new" /\ sent = <<>>
    /\ resp = NoResponse /\ outcome = NoOutcome /\ prev = NoPrev
    /\ frame = <<>>
    /\ ws = NoWS

\* Exchange.__init__ with the default api_root and api_version
Construct ==
    /\ pc = "new"
    /\ request' = Exchange_init(call.kwargs.access_key, call.kwargs.secret_key,
                                DEFAULT_API_ROOT, DEFAULT_API_VERSION)
    /\ pc' = "idle"
    /\ UNCHANGED frame
    /\ UNCHANGED ws
    /\ UNCHANGED <<clock, call, sent, resp, outcome, prev>>

NextCred == Construct

SpecCred == InitCred /\ [][NextCred]_vars

(***************************************************************************)
(* Several threads calling one client.  Each of pc, call, sent, resp and   *)
(* outcome is now a function of the thread, and frame holds the local      *)
(* variables of each method activation: the requests call its method has   *)
(* prepared from api_params.  A method body takes two steps: it builds     *)
(* api_params (reading the clock), then it makes its requests call.        *)
(***************************************************************************)
Threads == 1..MaxThreads

\* the calls the threads make
ConcCalls ==
    { [op |-> "new_order",
       kwargs |-> [symbol |-> Member("Symbol", "HNSBTC"),
                   side |-> Member("OrderSide", "BUY"),
                   order_type |-> Member("OrderType", "LIMIT"),
                   quantity |-> PyInt(0), price |-> PyInt(-1)]],
      [op |-> "get_order",
       kwargs |-> [symbol |-> Member("Symbol", "HNSBTC"),
                   order_id |-> PyInt(-1)]] }

\* the responses they get
ConcResponses ==
    { [status_code |-> 200, body |-> <<"json", PyStr("not found")>>,
       location |-> ""],
      [status_code |-> 400, body |-> <<"json", PyStr("not found")>>,
       location |-> ""] }

\* the redirect a server answers request rq of theirs with: the API sends
\* the client to another host, which redirects no further
ConcRedirects(rq) ==
    IF rq.url = "http://elsewhere.test/y" THEN {}
    ELSE { [status_code |-> 307, body |-> <<"text", 0>>,
            location |-> "http://elsewhere.test/y"] }

\* one slot of local variables for all activations
SharedFrame(th) == 1

\* the slot of local variables of the activation thread th runs: its own
Frame(th) == th

InitConc ==
    /\ \E c \in Constructions :
           request = Exchange_init(c.access_key, c.secret_key, c.api_root,
                                   c.api_version)
    /\ clock = 0
    /\ pc = [th \in Threads |-> "idle"]
    /\ call = [th \in Threads |-> NoCall]
    /\ sent = [th \in Threads |-> <<>>]
    /\ resp = [th \in Threads |-> NoResponse]
    /\ outcome = [th \in Threads |-> NoOutcome]
    /\ frame = [th \in Threads |-> <<>>]
    /\ ws = NoWS
    /\ prev = NoPrev

\* the method is entered and builds api_params, reading the clock
ConcEnter(th) ==
    /\ pc[th] = "idle"
    /\ \E c \in ConcCalls :
           /\ call' = [call EXCEPT ![th] =
                          [op |-> c.op, kwargs |-> c.kwargs, t |-> clock]]
           /\ frame' = [frame EXCEPT ![Frame(th)] =
                           <<Exchange_call(request, c.op,
                                           Bind(c.op, c.kwargs), clock)>>]
    /\ pc' = [pc EXCEPT ![th] = "built"]
    /\ UNCHANGED ws
    /\ UNCHANGED <<request, clock, sent, resp, outcome, prev>>

\* the requests call of the method
ConcSend(th) ==
    /\ pc[th] = "built"
    /\ sent' = [sent EXCEPT ![th] = frame[Frame(th)]]
    /\ pc' = [pc EXCEPT ![th] = "sent"]
    /\ UNCHANGED ws
    /\ UNCHANGED <<request, clock, call, resp, outcome, prev, frame>>

\* a response arrives for the call of thread th: a redirect is followed by
\* a further request of that call
ConcReceive(th) ==
    /\ pc[th] = "sent"
    /\ \E r \in ConcResponses
                  \cup ConcRedirects(sent[th][Len(sent[th])]) :
           /\ resp' = [resp EXCEPT ![th] = r]
           /\ IF ~is_redirect(r)
              THEN /\ outcome' = [outcome EXCEPT ![th] = Answered(r)]
                   /\ pc' = [pc EXCEPT ![th] = "done"]
                   /\ sent' = sent
              ELSE IF Len(sent[th]) > DEFAULT_REDIRECT_LIMIT
              THEN /\ outcome' = [outcome EXCEPT ![th] =
                                     Raise("TooManyRedirects", r)]
                   /\ pc' = [pc EXCEPT ![th] = "done"]
                   /\ sent' = sent
              ELSE /\ outcome' = outcome
                   /\ pc' = pc
                   /\ sent' = [sent EXCEPT ![th] =
                                  Append(@, resolve_redirects(@[Len(@)], r))]
    /\ UNCHANGED ws
    /\ UNCHANGED <<request, clock, call, prev, frame>>

ConcFault(th) ==
    /\ pc[th] = "sent"
    /\ outcome' = [outcome EXCEPT ![th] = Raise("ConnectionError", NoResponse)]
    /\ pc' = [pc EXCEPT ![th] = "done"]
    /\ UNCHANGED ws
    /\ UNCHANGED <<request, clock, call, sent, resp, prev, frame>>

\* the method returns or raises: its activation is gone
ConcFinish(th) ==
    /\ pc[th] = "done"
    /\ pc' = [pc EXCEPT ![th] = "idle"]
    /\ call' = [call EXCEPT ![th] = NoCall]
    /\ sent' = [sent EXCEPT ![th] = <<>>]
    /\ resp' = [resp EXCEPT ![th] = NoResponse]
    /\ outcome' = [outcome EXCEPT ![th] = NoOutcome]
    /\ frame' = [frame EXCEPT ![Frame(th)] = <<>>]
    /\ UNCHANGED ws
    /\ UNCHANGED <<request, clock, prev>>

ConcTick ==
    /\ clock < MaxConcClock
    /\ clock' = clock + 1
    /\ UNCHANGED ws
    /\ UNCHANGED <<request, pc, call, sent, resp, outcome, prev, frame>>

NextConc ==
    \/ \E th \in Threads : ConcEnter(th)
    \/ \E th \in Threads : ConcSend(th)
    \/ \E th \in Threads : ConcReceive(th)
    \/ \E th \in Threads : ConcFault(th)
    \/ \E th \in Threads : ConcFinish(th)
    \/ ConcTick

SpecConc == InitConc /\ [][NextConc]_vars

(***************************************************************************)
(* The streaming subscriber: ExchangeWS(endpoint, ...) is called with any  *)
(* endpoint and with each handler given or left out; then up to MaxFrames  *)
(* text frames arrive, and a transport error or the closure ends the       *)
(* receive loop.  pc is the position of the constructor: "new" before its  *)
(* body, "built" once the WebSocketApp exists, "running" inside            *)
(* run_forever, "failed" once a transport error has been reported, and     *)
(* "returned" when run_forever and with it the constructor has returned.   *)
(***************************************************************************)
\* the text frames: a JSON text and the empty frame
Frames == {"[1]", ""}

\* the handlers a caller supplies
Handlers(n) == {PyFunc(n)}

InitWS ==
    /\ \E endpoint \in Members("Endpoint"),
          on_message \in Arg(Handlers("on_message")),
          on_error \in Arg(Handlers("on_error")),
          on_close \in Arg(Handlers("on_close")),
          library \in WebSocketClients :
           call = [op |-> "ExchangeWS",
                   kwargs |-> Kw([endpoint |-> endpoint,
                                  on_message |-> on_message,
                                  on_error |-> on_error,
                                  on_close |-> on_close]),
                   t |-> 0,
                   library |-> library]
    /\ pc = "new"
    /\ ws = NoWS
    /\ request = NoRequest
    /\ clock = 0 /\ sent = <<>> /\ resp = NoResponse /\ outcome = NoOutcome
    /\ prev = NoPrev /\ frame = <<>>

\* lines 32 to 39: the handlers are stored and the WebSocketApp is built
ExchangeWS_new ==
    /\ pc = "new"
    /\ LET a == ExchangeWS_Bind(call.kwargs)
       IN ws' = ExchangeWS_init(a.endpoint, a.on_message, a.on_error,
                                a.on_close)
    /\ pc' = "built"
    /\ UNCHANGED <<request, clock, call, sent, resp, outcome, prev, frame>>

\* line 40: run_forever opens the connection to the URL of the app
run_forever ==
    /\ pc = "built"
    /\ ws' = [ws EXCEPT !.connects = Append(@, ws.url)]
    /\ pc' = "running"
    /\ UNCHANGED <<request, clock, call, sent, resp, outcome, prev, frame>>

\* the connection closes and the app opens it again
OnClose_Reconnect ==
    /\ pc \in {"running", "failed"}
    /\ Len(ws.connects) < 2
    /\ ws' = [ws EXCEPT !.arrived = Append(@, Closure),
                        !.log = @ \o Dispatch(ws, call.library, Closure),
                        !.connects = Append(@, ws.url)]
    /\ pc' = "running"
    /\ UNCHANGED <<request, clock, call, sent, resp, outcome, prev, frame>>

\* a text frame arrives: the app calls on_message with it
OnFrame ==
    /\ pc = "running"
    /\ Len(SelectSeq(ws.arrived, LAMBDA e : e.kind = "frame")) < MaxFrames
    /\ \E data \in Frames :
           ws' = [ws EXCEPT !.arrived = Append(@, TextFrame(data)),
                            !.log = @ \o Dispatch(ws, call.library,
                                                TextFrame(data))]
    /\ UNCHANGED <<request, clock, pc, call, sent, resp, outcome, prev, frame>>

\* connecting or receiving fails: the app calls on_error and leaves its loop
OnError ==
    /\ pc = "running"
    /\ ws' = [ws EXCEPT !.arrived = Append(@, TransportError),
                        !.log = @ \o Dispatch(ws, call.library,
                                                TransportError)]
    /\ pc' = "failed"
    /\ UNCHANGED <<request, clock, call, sent, resp, outcome, prev, frame>>

\* the connection is closed, by the peer or after an error: the app calls
\* on_close, run_forever returns and the constructor with it
OnClose ==
    /\ pc \in {"running", "failed"}
    /\ ws' = [ws EXCEPT !.arrived = Append(@, Closure),
                        !.log = @ \o Dispatch(ws, call.library, Closure)]
    /\ pc' = "returned"
    /\ UNCHANGED <<request, clock, call, sent, resp, outcome, prev, frame>>

NextWS ==
    \/ ExchangeWS_new
    \/ run_forever
    \/ OnFrame
    \/ OnError
    \/ OnClose

SpecWS == InitWS /\ [][NextWS]_vars

(***************************************************************************)
(* What the properties below are stated with: the tables of the            *)
(* specification, written out independently of the definitions above.      *)
(***************************************************************************)
\* the fixed table of wire values
SpecWire(cls) ==
    CASE cls = "Symbol" -> [HNSBTC |-> "HNSBTC"]
      [] cls = "Asset" -> [HNS |-> "HNS", BTC |-> "BTC"]
      [] cls = "OrderType" -> [LIMIT |-> "LMT", MARKET |-> "MKT"]
      [] cls = "OrderSide" -> [BUY |-> "BUY", SELL |-> "SELL"]
      [] cls = "Interval" ->
           [ONE_MINUTE |-> "1m", FIVE_MINUTES |-> "5m",
            FIFTEEN_MINUTES |-> "15m", ONE_HOUR |-> "1h",
            FOUR_HOURS |-> "4h", TWELVE_HOURS |-> "12h", ONE_DAY |-> "1d",
            ONE_WEEK |-> "1w"]

EnumClasses == {"Symbol", "Asset", "OrderType", "OrderSide", "Interval"}

\* the wire string of an Enum member, as a Python str
WireOf(m) == PyStr(SpecWire(m[2])[m[3]])

\* the operations the REST table marks auth = no
UnauthOps ==
    {"get_exchange_info", "get_depth", "get_trade", "get_kline",
     "get_ticker_day", "get_ticker_price", "get_ticker_book",
     "get_ticker_supply"}

\* the operations the REST table marks auth = yes, and the four wrappers
AuthOps ==
    {"new_order", "get_order", "delete_order", "get_open_orders",
     "get_all_orders", "get_account_information", "get_account_limits",
     "get_account_trades", "get_order_trades", "generate_deposit_address",
     "withdraw", "get_deposit_history", "get_withdraw_history",
     "limit_sell", "limit_buy", "market_sell", "market_buy"}

\* the epoch-millisecond reading of the clock at t/1024 seconds: the
\* integer nearest to 1000 t / 1024, the even one when two are as near
MsReading(t) ==
    CHOOSE n \in 0..(t + 1) :
        \/ /\ 2 * (1024 * n - 1000 * t) < 1024
           /\ 2 * (1000 * t - 1024 * n) < 1024
        \/ /\ 2 * (1024 * n - 1000 * t) \in {1024, -1024}
           /\ n % 2 = 0

\* a request has been issued by the call in progress
Issued == pc \in {"sent", "done"} /\ sent # <<>>

\* the arguments the method body of the call in progress sees
Args == Bind(call.op, call.kwargs)

\* the outgoing parameter mapping: the JSON body if there is one, else the
\* query parameters
Mapping == IF sent[1].json # None THEN sent[1].json ELSE sent[1].params

\* the key an optional parameter travels under
OptKey(n) ==
    CASE n = "receive_window" -> "receiveWindow"
      [] n = "trade_id" -> "tradeId"
      [] n = "order_id" -> "orderId"
      [] n = "start_time" -> "startTime"
      [] n = "end_time" -> "endTime"
      [] n = "price" -> "price"

\* the optional parameters of an operation
OptParams(op) ==
    (ParamNames(op) \cap {"receive_window", "trade_id", "start_time",
                          "end_time"})
    \cup (IF op = "get_all_orders" THEN {"order_id"} ELSE {})
    \cup (IF op = "new_order" THEN {"price"} ELSE {})

\* the key an Enum argument travels under
EnumKey(n) == IF n = "order_type" THEN "type" ELSE n

IsMarketOrder ==
    /\ Issued
    /\ call.op = "new_order"
    /\ Args.order_type = Member("OrderType", "MARKET")

IsLimitOrder ==
    /\ Issued
    /\ call.op = "new_order"
    /\ Args.order_type = Member("OrderType", "LIMIT")

(***************************************************************************)
(* C1 as stated: a new_order with order_type MARKET sends no 'price' key,  *)
(* whatever is passed for price.  The code sends the price it is given.    *)
(***************************************************************************)
C1_MarketNeverPrice == IsMarketOrder => "price" \notin Keys(Mapping)

(***************************************************************************)
(* C1 amended: a new_order with order_type MARKET sends no 'price' key     *)
(* when the price argument is null or omitted, and sends 'price' with the  *)
(* value passed when it is a number.                                       *)
(***************************************************************************)
C1_MarketPriceAsPassed ==
    IsMarketOrder =>
        /\ Args.price = None => "price" \notin Keys(Mapping)
        /\ Args.price # None =>
               "price" \in Keys(Mapping) /\ Get(Mapping, "price") = Args.price

C1_Witness ==
    /\ IsMarketOrder
    /\ "price" \notin DOMAIN call.kwargs
    /\ "price" \notin Keys(Mapping)
    /\ Get(Mapping, "type") = PyStr("MKT")

(***************************************************************************)
(* C2: a new_order with order_type LIMIT and a non-null price p sends a    *)
(* body with price = p, symbol/side/type the wire strings of the           *)
(* arguments, quantity the argument and an integer timestamp; its keys are *)
(* exactly symbol, side, type, quantity, price, timestamp, plus            *)
(* receiveWindow exactly when a receive_window (non-null) was supplied.    *)
(***************************************************************************)
C2_LimitOrderBody ==
    (IsLimitOrder /\ Args.price # None) =>
        /\ sent[1].method = "POST"
        /\ sent[1].params = None
        /\ Keys(sent[1].json) =
               {"symbol", "side", "type", "quantity", "price", "timestamp"}
               \cup (IF Args.receive_window # None
                     THEN {"receiveWindow"} ELSE {})
        /\ Get(sent[1].json, "price") = Args.price
        /\ Get(sent[1].json, "quantity") = Args.quantity
        /\ Get(sent[1].json, "symbol") = WireOf(Args.symbol)
        /\ Get(sent[1].json, "side") = WireOf(Args.side)
        /\ Get(sent[1].json, "type") = PyStr("LMT")
        /\ Get(sent[1].json, "timestamp")[1] = "int"
        /\ Args.receive_window # None =>
               Get(sent[1].json, "receiveWindow") = Args.receive_window

C2_Witness ==
    /\ IsLimitOrder
    /\ Args.side = Member("OrderSide", "BUY")
    /\ Args.price = PyInt(0)
    /\ Args.quantity = PyInt(-1)
    /\ Get(sent[1].json, "price") = PyInt(0)
    /\ "receiveWindow" \notin Keys(sent[1].json)

(***************************************************************************)
(* C3 as stated: every optional parameter of every operation may be        *)
(* omitted at the call site, the call then sends a request whose mapping   *)
(* lacks the key; supplied non-null, the key is there with that value.     *)
(* The code gives no default to trade_id of get_account_trades nor to      *)
(* receive_window of the four wrappers: omitting them raises TypeError.    *)
(***************************************************************************)
C3_OptionalOmittable ==
    (pc \in {"sent", "done"} /\ call.op # "") =>
        \A n \in OptParams(call.op) :
            /\ n \notin DOMAIN call.kwargs =>
                   sent # <<>> /\ OptKey(n) \notin Keys(Mapping)
            /\ (n \in DOMAIN call.kwargs /\ call.kwargs[n] # None) =>
                   /\ sent # <<>>
                   /\ OptKey(n) \in Keys(Mapping)
                   /\ Get(Mapping, OptKey(n)) = call.kwargs[n]

(***************************************************************************)
(* C4: every request of an authenticated operation carries the timestamp   *)
(* read from the clock during that call, and when the millisecond reading  *)
(* of the clock differs between two consecutive calls, so do their         *)
(* timestamps.                                                             *)
(***************************************************************************)
C4_FreshTimestamp ==
    /\ (Issued /\ call.op \in AuthOps) =>
           TimestampOf(sent[1]) = PyInt(MsReading(call.t))
    /\ (pc = "sent" /\ prev.timestamp # None /\ TimestampOf(sent[1]) # None
        /\ MsReading(prev.t) # MsReading(call.t)) =>
           TimestampOf(sent[1]) # prev.timestamp

C4_Witness ==
    /\ pc = "sent"
    /\ call.op = "get_order"
    /\ prev = [t |-> 0, timestamp |-> PyInt(0)]
    /\ call.t = 1
    /\ Get(sent[1].params, "timestamp") = PyInt(1)

(***************************************************************************)
(* C5 as stated: no operation marked auth = no sends 'timestamp' or        *)
(* 'receiveWindow'; only symbol/asset, interval and the pagination         *)
(* parameters are sent.  get_trade (recent trades) sends a timestamp.      *)
(***************************************************************************)
C5_UnauthNoTimestamp ==
    (Issued /\ call.op \in UnauthOps) =>
        Keys(Mapping) \subseteq
            {"symbol", "asset", "interval", "limit", "tradeId", "startTime",
             "endTime"}

(***************************************************************************)
(* C5 amended: exchange info, depth, klines, the three tickers and supply  *)
(* send no 'timestamp' and no 'receiveWindow', only symbol/asset,          *)
(* interval, limit, startTime and endTime; recent trades (get_trade) sends *)
(* symbol, limit, always a timestamp, tradeId when given and receiveWindow *)
(* when given.                                                             *)
(***************************************************************************)
C5_UnauthExceptTrade ==
    /\ (Issued /\ call.op \in UnauthOps \ {"get_trade"}) =>
           Keys(Mapping) \subseteq
               {"symbol", "asset", "interval", "limit", "startTime",
                "endTime"}
    /\ (Issued /\ call.op = "get_trade") =>
           /\ {"symbol", "limit", "timestamp"} \subseteq Keys(Mapping)
           /\ Keys(Mapping) \subseteq
                  {"symbol", "limit", "timestamp", "tradeId", "receiveWindow"}
           /\ "receiveWindow" \in Keys(Mapping)
                  <=> Args.receive_window # None
           /\ "tradeId" \in Keys(Mapping) <=> Args.trade_id # None

C5_Witness ==
    /\ Issued
    /\ call.op = "get_depth"
    /\ Keys(Mapping) = {"symbol", "limit"}
    /\ Get(Mapping, "limit") = PyInt(100)

(***************************************************************************)
(* C6 as stated: the request of an operation marked auth = no carries no   *)
(* Authorization header.  Every method sends its request with              *)
(* self.headers.                                                           *)
(***************************************************************************)
C6_UnauthNoAuthorization ==
    (Issued /\ call.op \in UnauthOps) =>
        "Authorization" \notin DOMAIN sent[1].headers

(***************************************************************************)
(* C6 amended: the request an operation issues, for an operation marked    *)
(* auth = no as for one marked auth = yes, carries the Authorization       *)
(* header built at construction from the key pair.                         *)
(***************************************************************************)
C6_AuthorizationOnEveryOperation ==
    Issued =>
        /\ "Authorization" \in DOMAIN sent[1].headers
        /\ sent[1].headers["Authorization"] \in {"Basic YTpi", "Basic Ojo="}
        /\ sent[1].headers["Authorization"] = request.headers["Authorization"]

\* get_ticker_day, marked auth = no, sent with the header of the key pair
\* ("a", "b")
C6_Witness ==
    /\ Issued
    /\ call.op = "get_ticker_day"
    /\ call.op \in UnauthOps
    /\ sent[1].headers["Authorization"] = "Basic YTpi"

(***************************************************************************)
(* C7 as stated: every Enum argument reaches the outgoing mapping as its   *)
(* wire string, never as the member.  get_kline puts the Interval member   *)
(* itself under 'interval'.                                                *)
(***************************************************************************)
C7_EnumsAsWireStrings ==
    Issued =>
        /\ \A k \in Keys(Mapping) : Get(Mapping, k)[1] # "enum"
        /\ \A n \in DOMAIN call.kwargs :
               call.kwargs[n][1] = "enum" =>
                   /\ EnumKey(n) \in Keys(Mapping)
                   /\ Get(Mapping, EnumKey(n)) = WireOf(call.kwargs[n])

(***************************************************************************)
(* C8: the wire value of every Enum member is the one of the fixed table,  *)
(* the table is one-to-one within each class, and FIFTEEN_MINUTES is       *)
(* "15m", not the "5m" of FIVE_MINUTES.                                    *)
(***************************************************************************)
C8_WireTable ==
    /\ \A cls \in EnumClasses :
           /\ DOMAIN EnumClass(cls) = DOMAIN SpecWire(cls)
           /\ \A m \in Members(cls) : value(m) = WireOf(m)
           /\ \A m1, m2 \in Members(cls) :
                  value(m1) = value(m2) => m1 = m2
    /\ value(Member("Interval", "FIFTEEN_MINUTES")) = PyStr("15m")
    /\ value(Member("Interval", "FIVE_MINUTES")) = PyStr("5m")
    /\ \A n \in DOMAIN call.kwargs :
           call.kwargs[n][1] = "enum" =>
               value(call.kwargs[n]) = WireOf(call.kwargs[n])

C8_Witness ==
    /\ Issued
    /\ call.op = "get_kline"
    /\ call.kwargs["interval"] = Member("Interval", "FIFTEEN_MINUTES")
    /\ value(call.kwargs["interval"]) = PyStr("15m")

(***************************************************************************)
(* C9 as stated: every response with a status outside 200..299 ends the    *)
(* call with an HttpError, and a value is returned only on 2xx.            *)
(* raise_for_status raises on 400..599 only.                               *)
(***************************************************************************)
C9_Non2xxRaises ==
    (pc = "done" /\ resp # NoResponse) =>
        /\ (resp.status_code < 200 \/ resp.status_code > 299) =>
               outcome.kind = "raise" /\ outcome.exc = "HTTPError"
        /\ outcome.kind = "return" =>
               (200 <= resp.status_code /\ resp.status_code <= 299)

(***************************************************************************)
(* C9 amended: for each of Request.get, post and delete, a response with a *)
(* status in 400..599 ends the call with an HttpError and no value, and no *)
(* other status does; the parsed JSON body is returned only when the       *)
(* status is outside 400..599 (2xx and 3xx alike) and the response         *)
(* delivers a JSON body, which one with status 1xx, 204 or 304 never does. *)
(***************************************************************************)
C9_ErrorStatusRaises ==
    (pc = "done" /\ resp # NoResponse) =>
        /\ (400 <= resp.status_code /\ resp.status_code <= 599) =>
               /\ outcome.kind = "raise"
               /\ outcome.exc = "HTTPError"
               /\ outcome.value = None
        /\ (outcome.kind = "raise" /\ outcome.exc = "HTTPError") =>
               (400 <= resp.status_code /\ resp.status_code <= 599)
        /\ outcome.kind = "return" =>
               /\ resp.status_code < 400 \/ resp.status_code > 599
               /\ ~NoBodyStatus(resp.status_code)
               /\ resp.body[1] = "json"
               /\ outcome.value = resp.body[2]
        /\ (NoBodyStatus(resp.status_code) /\ ~is_redirect(resp)) =>
               /\ outcome.kind = "raise"
               /\ outcome.exc \in {"JSONDecodeError", "ConnectionError"}

C9_Witness ==
    /\ pc = "done"
    /\ sent # <<>>
    /\ sent[1].method = "DELETE"
    /\ resp.status_code = 599
    /\ outcome.kind = "raise"
    /\ outcome.exc = "HTTPError"

(***************************************************************************)
(* C10 as stated: a typed operation that receives a non-2xx response with  *)
(* status c and body b hands its caller the HttpError with status c and    *)
(* body b.  A 1xx or 3xx response raises no HttpError.                     *)
(***************************************************************************)
C10_Non2xxReachesCaller ==
    (pc = "done" /\ resp # NoResponse /\ call.op # "status"
     /\ (resp.status_code < 200 \/ resp.status_code > 299)) =>
        /\ outcome.kind = "raise"
        /\ outcome.exc = "HTTPError"
        /\ outcome.response = resp

(***************************************************************************)
(* C10 amended: a typed operation that receives a response with status c   *)
(* in 400..599 and body b hands its caller the HttpError itself, not       *)
(* wrapped or swallowed, with status c and body b.                         *)
(***************************************************************************)
C10_ErrorReachesCaller ==
    (pc = "done" /\ resp # NoResponse /\ call.op # "status"
     /\ 400 <= resp.status_code /\ resp.status_code <= 599) =>
        /\ outcome.kind = "raise"
        /\ outcome.exc = "HTTPError"
        /\ outcome.response.status_code = resp.status_code
        /\ outcome.response.body = resp.body

C10_Witness ==
    /\ pc = "done"
    /\ call.op = "get_order"
    /\ resp = [status_code |-> 400, body |-> <<"json", PyStr("not found")>>,
               location |-> ""]
    /\ outcome = Raise("HTTPError", resp)

(***************************************************************************)
(* C11 as stated: every call that issues its request ends in a returned    *)
(* parsed JSON value, in a transport error (no response received) or in an *)
(* HttpError (a non-2xx response), and in nothing else.  A 2xx response    *)
(* whose body is empty or not JSON makes r.json() raise a decoding error.  *)
(***************************************************************************)
C11_ThreeOutcomes ==
    (pc = "done" /\ sent # <<>>) =>
        \/ outcome.kind = "return" /\ resp # NoResponse
        \/ /\ outcome.kind = "raise"
           /\ outcome.exc = "ConnectionError"
           /\ resp = NoResponse
        \/ /\ outcome.kind = "raise"
           /\ outcome.exc = "HTTPError"
           /\ resp # NoResponse
           /\ (resp.status_code < 200 \/ resp.status_code > 299)

(***************************************************************************)
(* C12 as stated: an invocation of a typed operation has issued exactly    *)
(* one HTTP request, from the moment it waits for the response to the      *)
(* moment its outcome reaches the caller (leaving aside the invocations    *)
(* that fail before their HTTP call).  A redirect is answered with a       *)
(* second request inside the same call.                                    *)
(***************************************************************************)
C12_ExactlyOneRequest ==
    (pc \in {"sent", "done"}
     /\ ~(outcome.kind = "raise"
          /\ outcome.exc \in {"TypeError", "InvalidJSONError"})) =>
        Len(sent) = 1

\* the redirects of the model, whichever operation they answer
AllRedirects == Redirects(request) \cup MoreRedirects(request)

(***************************************************************************)
(* C12 amended: an invocation that fails before its HTTP call (TypeError,  *)
(* InvalidJSONError) issues no request.  Any other issues exactly one      *)
(* request of its own and one further request for each redirect it is      *)
(* answered with, at most 30 of them: each request after the first is the  *)
(* follow-up of the redirect that answered the request before it; the      *)
(* redirect that answers the 31st request ends the call with               *)
(* TooManyRedirects; and nothing is sent after a response that is no       *)
(* redirect, an HttpError among them, or after a transport fault.          *)
(***************************************************************************)
C12_OneRequestPerRedirect ==
    pc \in {"sent", "done"} =>
        IF outcome.kind = "raise"
           /\ outcome.exc \in {"TypeError", "InvalidJSONError"}
        THEN sent = <<>>
        ELSE /\ Len(sent) >= 1
             /\ Len(sent) <= DEFAULT_REDIRECT_LIMIT + 1
             /\ sent[1] = Exchange_call(request, call.op, Args, call.t)
             /\ Len(sent) = 1 => (pc = "sent" => resp = NoResponse)
             /\ \A i \in 2..Len(sent) :
                    \E r \in AllRedirects :
                        sent[i] = resolve_redirects(sent[i - 1], r)
             /\ (Len(sent) > 1 /\ pc = "sent") =>
                    /\ is_redirect(resp)
                    /\ sent[Len(sent)] =
                           resolve_redirects(sent[Len(sent) - 1], resp)
             /\ (pc = "done" /\ outcome.exc = "TooManyRedirects") =>
                    /\ is_redirect(resp)
                    /\ Len(sent) = DEFAULT_REDIRECT_LIMIT + 1
             /\ (pc = "done"
                 /\ outcome.exc \notin {"ConnectionError",
                                        "TooManyRedirects"}) =>
                    ~is_redirect(resp)

\* get_exchange_info redirected to /info again and again: 31 requests are
\* sent, and the redirect that answers the last ends the call
C12_Witness ==
    /\ pc = "done"
    /\ call.op = "get_exchange_info"
    /\ Len(sent) = 31
    /\ resp.status_code = 307
    /\ outcome.kind = "raise"
    /\ outcome.exc = "TooManyRedirects"

(***************************************************************************)
(* The REST table of the specification: operation, verb, path.             *)
(***************************************************************************)
RestTable ==
    [get_exchange_info |-> <<"GET", "/info">>,
     get_depth |-> <<"GET", "/depth">>,
     get_trade |-> <<"GET", "/trade">>,
     get_kline |-> <<"GET", "/ticker/klines">>,
     get_ticker_day |-> <<"GET", "/ticker/day">>,
     get_ticker_price |-> <<"GET", "/ticker/price">>,
     get_ticker_book |-> <<"GET", "/ticker/book">>,
     get_ticker_supply |-> <<"GET", "/ticker/supply">>,
     new_order |-> <<"POST", "/order">>,
     get_order |-> <<"GET", "/order">>,
     delete_order |-> <<"DELETE", "/order">>,
     get_open_orders |-> <<"GET", "/order/open">>,
     get_all_orders |-> <<"GET", "/order/all">>,
     get_account_information |-> <<"GET", "/account">>,
     get_account_limits |-> <<"GET", "/account/limits">>,
     get_account_trades |-> <<"GET", "/trade/account">>,
     get_order_trades |-> <<"GET", "/trade/order">>,
     generate_deposit_address |-> <<"POST", "/deposit/address">>,
     withdraw |-> <<"POST", "/withdraw">>,
     get_deposit_history |-> <<"GET", "/deposit/history">>,
     get_withdraw_history |-> <<"GET", "/withdraw/history">>]

TableOps == DOMAIN RestTable

\* the four convenience wrappers, which place an order
Wrappers == {"limit_sell", "limit_buy", "market_sell", "market_buy"}

\* the row of the table an operation belongs to
RowOf(op) == IF op \in Wrappers THEN "new_order" ELSE op

\* the base URLs of the clients constructed: api_root + api_version
BaseUrls == {"https://www.namebase.io/api/v0", "http://localhost/api/v1"}

\* an argument of the right kind for a parameter
SampleArg(n) ==
    CASE n = "symbol" -> Member("Symbol", "HNSBTC")
      [] n = "asset" -> Member("Asset", "HNS")
      [] n = "interval" -> Member("Interval", "ONE_HOUR")
      [] n = "side" -> Member("OrderSide", "BUY")
      [] n = "order_type" -> Member("OrderType", "LIMIT")
      [] n = "address" -> PyStr("addr")
      [] OTHER -> PyInt(0)

\* where this client sends an operation: verb and URL
Route(op) ==
    LET r == Exchange_call(request, op,
                           [n \in ParamNames(op) |-> SampleArg(n)], clock)
    IN <<r.method, r.url>>

(***************************************************************************)
(* C13: the request of a typed operation carries the verb of its row of    *)
(* the REST table and the URL api_root + api_version + the path of its     *)
(* row (the four order wrappers go where place order goes), and, as it is  *)
(* sent, no other row of the table goes to the same verb and URL.          *)
(***************************************************************************)
C13_VerbAndPath ==
    (Issued /\ RowOf(call.op) \in TableOps) =>
        /\ request.url \in BaseUrls
        /\ sent[1].method = RestTable[RowOf(call.op)][1]
        /\ sent[1].url = request.url \o RestTable[RowOf(call.op)][2]
        /\ pc = "sent" =>
               \A o \in TableOps \ {RowOf(call.op)} :
                   Route(o) # <<sent[1].method, sent[1].url>>

C13_Witness ==
    /\ Issued
    /\ call.op = "get_order_trades"
    /\ sent[1].method = "GET"
    /\ sent[1].url = "http://localhost/api/v1/trade/order"

(***************************************************************************)
(* C14: no step of any operation, whatever its outcome, changes the        *)
(* Authorization header value or the base URL the client holds: both stay  *)
(* what the constructor computed.                                          *)
(***************************************************************************)
C14_ClientImmutable ==
    [][/\ request'.headers["Authorization"] = request.headers["Authorization"]
       /\ request'.url = request.url
       /\ request' = request]_vars

\* a second call in flight after a first one completed, with the values of
\* Exchange("a", "b")
C14_Witness ==
    /\ pc = "sent"
    /\ prev.timestamp # None
    /\ request.headers["Authorization"] = "Basic YTpi"
    /\ request.url = "https://www.namebase.io/api/v0"

(***************************************************************************)
(* Base64 and UTF-8 as RFC 4648 and RFC 3629 define them, on bits: what    *)
(* the Authorization header is decoded with.                               *)
(***************************************************************************)
\* the value of each base64 character
B64Value ==
    [A |-> 0, B |-> 1, C |-> 2, D |-> 3, E |-> 4, F |-> 5, G |-> 6, H |-> 7,
     I |-> 8, J |-> 9, K |-> 10, L |-> 11, M |-> 12, N |-> 13, O |-> 14,
     P |-> 15, Q |-> 16, R |-> 17, S |-> 18, T |-> 19, U |-> 20, V |-> 21,
     W |-> 22, X |-> 23, Y |-> 24, Z |-> 25, a |-> 26, b |-> 27, c |-> 28,
     d |-> 29, e |-> 30, f |-> 31, g |-> 32, h |-> 33, i |-> 34, j |-> 35,
     k |-> 36, l |-> 37, m |-> 38, n |-> 39, o |-> 40, p |-> 41, q |-> 42,
     r |-> 43, s |-> 44, t |-> 45, u |-> 46, v |-> 47, w |-> 48, x |-> 49,
     y |-> 50, z |-> 51]
    @@ ("0" :> 52) @@ ("1" :> 53) @@ ("2" :> 54) @@ ("3" :> 55)
    @@ ("4" :> 56) @@ ("5" :> 57) @@ ("6" :> 58) @@ ("7" :> 59)
    @@ ("8" :> 60) @@ ("9" :> 61) @@ ("+" :> 62) @@ ("/" :> 63)

Pow2(n) == IF n = 0 THEN 1 ELSE IF n = 1 THEN 2 ELSE IF n = 2 THEN 4
           ELSE IF n = 3 THEN 8 ELSE IF n = 4 THEN 16 ELSE IF n = 5 THEN 32
           ELSE IF n = 6 THEN 64 ELSE 128

\* the bits of a sequence of w-bit numbers, most significant first
BitsOf(xs, w) ==
    [k \in 1..(w * Len(xs)) |->
        (xs[((k - 1) \div w) + 1] \div Pow2(w - 1 - ((k - 1) % w))) % 2]

\* the number the bits from position lo to position hi spell, a bit
\* beyond the end being 0
RECURSIVE NumberAt(_, _, _)
NumberAt(bits, lo, hi) ==
    IF hi < lo THEN 0
    ELSE 2 * NumberAt(bits, lo, hi - 1)
         + (IF hi <= Len(bits) THEN bits[hi] ELSE 0)

\* the base64 text of a byte sequence, one character per element, "="
\* filling the last group of four
B64Text(bs) ==
    LET bits == BitsOf(bs, 8)
        n == (Len(bits) + 5) \div 6
    IN [k \in 1..(4 * ((n + 3) \div 4)) |->
           IF k > n THEN "="
           ELSE CHOOSE ch \in DOMAIN B64Value :
                    B64Value[ch] = NumberAt(bits, 6 * k - 5, 6 * k)]

\* the bytes a base64 text decodes to
B64Decode(text) ==
    LET digits == SelectSeq(text, LAMBDA ch : ch # "=")
        bits == BitsOf([k \in 1..Len(digits) |-> B64Value[digits[k]]], 6)
    IN [k \in 1..(Len(bits) \div 8) |-> NumberAt(bits, 8 * k - 7, 8 * k)]

\* the code points a UTF-8 byte sequence decodes to, <<-1>> where it is
\* not UTF-8 of code points below 2048
RECURSIVE Utf8Decode(_)
Utf8Decode(bs) ==
    IF bs = <<>> THEN <<>>
    ELSE IF bs[1] < 128 THEN <<bs[1]>> \o Utf8Decode(Tail(bs))
    ELSE IF /\ bs[1] \in 194..223
            /\ Len(bs) >= 2
            /\ bs[2] \in 128..191
         THEN <<(bs[1] - 192) * 64 + (bs[2] - 128)>>
              \o Utf8Decode(SubSeq(bs, 3, Len(bs)))
    ELSE <<-1>>

\* the UTF-8 bytes of a text of code points below 2048
Utf8Bytes(cps) ==
    LET width(c) == IF c < 128 THEN 1 ELSE 2
        RECURSIVE bytes(_)
        bytes(k) ==
            IF k > Len(cps) THEN <<>>
            ELSE (IF width(cps[k]) = 1 THEN <<cps[k]>>
                  ELSE <<192 + NumberAt(BitsOf(<<cps[k]>>, 8), 1, 2)
                             + 4 * (cps[k] \div 256),
                         128 + NumberAt(BitsOf(<<cps[k]>>, 8), 3, 8)>>)
                 \o bytes(k + 1)
    IN bytes(1)

\* the characters of a text, joined into a string
RECURSIVE Join(_)
Join(text) == IF text = <<>> THEN "" ELSE Head(text) \o Join(Tail(text))

\* the text a:s of a key pair
Colon(a, s) == a \o <<58>> \o s

(***************************************************************************)
(* C15: for every key pair (a, s), empty keys and keys holding ':'         *)
(* included, the Authorization header the constructor builds is "Basic "   *)
(* followed by the base64 text that decodes to the UTF-8 of a + ":" + s.   *)
(***************************************************************************)
C15_HeaderDecodes ==
    pc = "idle" =>
        LET text == Colon(call.kwargs.access_key, call.kwargs.secret_key)
            b64 == B64Text(Utf8Bytes(text))
        IN /\ request.headers["Authorization"] = "Basic " \o Join(b64)
           /\ Utf8Decode(B64Decode(b64)) = text

\* Exchange(":", U+00E9 ":"), whose header decodes to "::" U+00E9 ":"
C15_Witness ==
    /\ pc = "idle"
    /\ call.kwargs.access_key = <<58>>
    /\ call.kwargs.secret_key = <<233, 58>>
    /\ request.headers["Authorization"] = "Basic OjrDqTo="

(***************************************************************************)
(* C16 as stated: every request the request layer issues, through get,     *)
(* post, delete or status, carries the timeout of 30 set at construction.  *)
(* Request.status calls requests.get without a timeout.                    *)
(***************************************************************************)
C16_TimeoutOnEveryRequest ==
    Issued => sent[1].timeout = PyInt(30)

(***************************************************************************)
(* C17: delete_order issues a DELETE to <base URL>/order with no query     *)
(* string and a JSON body of symbol (its wire string), orderId and         *)
(* timestamp as given and read, plus receiveWindow exactly when one is     *)
(* supplied.                                                               *)
(***************************************************************************)
C17_DeleteOrderBody ==
    (Issued /\ call.op = "delete_order") =>
        /\ sent[1].method = "DELETE"
        /\ sent[1].url = request.url \o "/order"
        /\ sent[1].params = None
        /\ sent[1].data = None
        /\ sent[1].json # None
        /\ Keys(sent[1].json) =
               {"symbol", "orderId", "timestamp"}
               \cup (IF Args.receive_window # None THEN {"receiveWindow"}
                     ELSE {})
        /\ Get(sent[1].json, "symbol") = WireOf(Args.symbol)
        /\ Get(sent[1].json, "orderId") = Args.order_id
        /\ Get(sent[1].json, "timestamp") = PyInt(MsReading(call.t))
        /\ Args.receive_window # None =>
               Get(sent[1].json, "receiveWindow") = Args.receive_window

C17_Witness ==
    /\ Issued
    /\ call.op = "delete_order"
    /\ "receive_window" \in DOMAIN call.kwargs
    /\ call.kwargs.receive_window = PyInt(0)
    /\ sent[1].method = "DELETE"
    /\ Keys(sent[1].json) = {"symbol", "orderId", "timestamp", "receiveWindow"}

\* the side and the type a wrapper fixes
WrapperSide(op) ==
    IF op \in {"limit_buy", "market_buy"} THEN Member("OrderSide", "BUY")
    ELSE Member("OrderSide", "SELL")

WrapperType(op) ==
    IF op \in {"limit_buy", "limit_sell"} THEN Member("OrderType", "LIMIT")
    ELSE Member("OrderType", "MARKET")

(***************************************************************************)
(* C18: the request of limit_buy, limit_sell, market_buy or market_sell    *)
(* is the request new_order builds at the same clock reading from the      *)
(* wrapper's symbol, quantity and receive_window, the wrapper's side and   *)
(* type, and the wrapper's price (None for a market wrapper); quantity     *)
(* and price travel under their own keys and a market wrapper sends no     *)
(* price.                                                                  *)
(***************************************************************************)
C18_WrapperIsNewOrder ==
    (Issued /\ call.op \in Wrappers) =>
        LET limit == call.op \in {"limit_buy", "limit_sell"}
            price == IF limit THEN Args.price ELSE None
        IN /\ sent[1] = Exchange_call(request, "new_order",
                            [symbol |-> Args.symbol,
                             side |-> WrapperSide(call.op),
                             order_type |-> WrapperType(call.op),
                             quantity |-> Args.quantity,
                             price |-> price,
                             receive_window |-> Args.receive_window],
                            call.t)
           /\ sent[1].method = "POST"
           /\ Get(sent[1].json, "side") = WireOf(WrapperSide(call.op))
           /\ Get(sent[1].json, "type") = WireOf(WrapperType(call.op))
           /\ Get(sent[1].json, "quantity") = Args.quantity
           /\ limit => /\ "price" \in Keys(sent[1].json)
                       /\ Get(sent[1].json, "price") = Args.price
           /\ ~limit => "price" \notin Keys(sent[1].json)

\* limit_sell(HNSBTC, price = -1, quantity = 0, receive_window = None)
C18_Witness ==
    /\ Issued
    /\ call.op = "limit_sell"
    /\ call.kwargs.price = PyInt(-1)
    /\ call.kwargs.quantity = PyInt(0)
    /\ Get(sent[1].json, "price") = PyInt(-1)
    /\ Get(sent[1].json, "quantity") = PyInt(0)
    /\ Get(sent[1].json, "side") = PyStr("SELL")
    /\ Get(sent[1].json, "type") = PyStr("LMT")

(***************************************************************************)
(* C19: in every interleaving of calls made concurrently on one client,    *)
(* the request a call sends is the request the same call sends alone at    *)
(* the clock reading it took: it is made of that call's own arguments,     *)
(* that reading and the header and base URL of the client, whatever the    *)
(* other calls are given and however they end.                             *)
(***************************************************************************)
C19_CallsIsolated ==
    \A th \in Threads :
        pc[th] \in {"sent", "done"} =>
            /\ sent[th][1] = Exchange_call(request, call[th].op,
                                           Bind(call[th].op, call[th].kwargs),
                                           call[th].t)
            /\ \A i \in 2..Len(sent[th]) :
                   \E r \in ConcRedirects(sent[th][i - 1]) :
                       sent[th][i] = resolve_redirects(sent[th][i - 1], r)
            /\ sent[th][1].headers = request.headers
            /\ LET m == IF sent[th][1].json # None THEN sent[th][1].json
                        ELSE sent[th][1].params
               IN /\ Get(m, "timestamp") = PyInt(MsReading(call[th].t))
                  /\ "quantity" \in Keys(m) <=> call[th].op = "new_order"
                  /\ call[th].op # "new_order" =>
                         Get(m, "orderId") = call[th].kwargs.order_id

\* thread 1 has got an HTTP error for its get_order while the new_order
\* thread 2 entered later, redirected once, is in flight
C19_Witness ==
    /\ pc[1] = "done"
    /\ call[1].op = "get_order"
    /\ outcome[1].kind = "raise"
    /\ outcome[1].exc = "HTTPError"
    /\ Len(sent[2]) = 2
    /\ pc[2] = "sent"
    /\ call[2].op = "new_order"
    /\ call[2].t > call[1].t
    /\ Get(sent[2][1].json, "quantity") = PyInt(0)

\* the numeric parameters and the key each travels under
NumKey ==
    [quantity |-> "quantity", price |-> "price", amount |-> "amount",
     limit |-> "limit", order_id |-> "orderId", trade_id |-> "tradeId",
     start_time |-> "startTime", end_time |-> "endTime",
     receive_window |-> "receiveWindow"]

\* the call in progress was given every parameter that has no default
FullyGiven ==
    /\ pc \in {"sent", "done"}
    /\ call.op # "status"
    /\ \A i \in DOMAIN Signature(call.op) :
           Len(Signature(call.op)[i]) = 1 =>
               Signature(call.op)[i][1] \in DOMAIN call.kwargs

\* a float that is not a finite number is among the arguments of the call
\* in progress
NonFiniteGiven ==
    \E n \in DOMAIN call.kwargs : call.kwargs[n][1] = "float"

(***************************************************************************)
(* C20 as stated: a call that is given all the parameters without default  *)
(* issues its request whatever the numbers are, and an error the caller    *)
(* then sees is one of the remote service or of the transport.  A float    *)
(* that is not a finite number, in a JSON body, is refused before anything *)
(* is sent.                                                                *)
(***************************************************************************)
C20_AnyNumberIssues ==
    FullyGiven =>
        /\ Len(sent) >= 1
        /\ (pc = "done" /\ outcome.kind = "raise") =>
               (resp # NoResponse \/ outcome.exc = "ConnectionError")

(***************************************************************************)
(* C20 amended: a call that is given all the parameters without default    *)
(* issues its request whatever the finite numbers are (zero, negative,     *)
(* start_time after end_time) and carries each number it is given as       *)
(* given; a LIMIT new_order without price issues its request too, without  *)
(* a price; an error the caller then sees comes after the request has been *)
(* sent.  A quantity, price, amount or order id that is NaN or an infinity *)
(* and goes into a JSON body ends the call with InvalidJSONError and       *)
(* nothing sent.                                                           *)
(***************************************************************************)
C20_FiniteNumbersIssue ==
    FullyGiven =>
        IF NonFiniteGiven
        THEN /\ sent = <<>>
             /\ pc = "done"
             /\ outcome.kind = "raise"
             /\ outcome.exc = "InvalidJSONError"
        ELSE /\ Len(sent) >= 1
             /\ \A n \in DOMAIN call.kwargs \cap DOMAIN NumKey :
                    call.kwargs[n] # None =>
                        /\ NumKey[n] \in Keys(Mapping)
                        /\ Get(Mapping, NumKey[n]) = call.kwargs[n]
             /\ (call.op = "new_order" /\ Args.price = None) =>
                    "price" \notin Keys(Mapping)
             /\ (pc = "done" /\ outcome.kind = "raise") =>
                    (resp # NoResponse \/ outcome.exc = "ConnectionError")

\* a LIMIT order for quantity -1 without price, rejected by the service
C20_Witness ==
    /\ pc = "done"
    /\ call.op = "new_order"
    /\ call.kwargs.order_type = Member("OrderType", "LIMIT")
    /\ "price" \notin DOMAIN call.kwargs
    /\ call.kwargs.quantity = PyInt(-1)
    /\ Len(sent) = 1
    /\ Get(sent[1].json, "quantity") = PyInt(-1)
    /\ outcome.kind = "raise"
    /\ outcome.exc = "HTTPError"
    /\ resp.status_code = 400

(***************************************************************************)
(* The streaming URL of each endpoint descriptor: the fixed host and the   *)
(* path of the descriptor.                                                 *)
(***************************************************************************)
StreamUrl ==
    [TRADES |-> "wss://app.namebase.io:443/ws/v0/stream/trades",
     KLINES_1m |-> "wss://app.namebase.io:443/ws/v0/ticker/kline_1m",
     KLINES_5m |-> "wss://app.namebase.io:443/ws/v0/ticker/kline_5m",
     KLINES_15m |-> "wss://app.namebase.io:443/ws/v0/ticker/kline_15m",
     KLINES_1h |-> "wss://app.namebase.io:443/ws/v0/ticker/kline_1h",
     KLINES_4h |-> "wss://app.namebase.io:443/ws/v0/ticker/kline_4h",
     KLINES_12h |-> "wss://app.namebase.io:443/ws/v0/ticker/kline_12h",
     KLINES_1d |-> "wss://app.namebase.io:443/ws/v0/ticker/kline_1d",
     KLINES_1w |-> "wss://app.namebase.io:443/ws/v0/ticker/kline_1w",
     PRICES |-> "wss://app.namebase.io:443/ws/v0/ticker/day",
     DEPTH |-> "wss://app.namebase.io:443/ws/v0/ticker/depth"]

\* the closure has arrived on the connection: its receive loop has ended
LoopEnded ==
    /\ ws.arrived # <<>>
    /\ ws.arrived[Len(ws.arrived)].kind = "close"

(***************************************************************************)
(* C21: once the subscriber runs, the connections it has opened are one,   *)
(* to the fixed host plus the path of its endpoint descriptor, and it has  *)
(* sent no message; this stays so after a transport error and after the    *)
(* closure; and its constructor has returned exactly when the receive      *)
(* loop of that connection has ended.                                      *)
(***************************************************************************)
C21_OneConnection ==
    /\ pc \in {"new", "built"} => ws.connects = <<>>
    /\ pc \in {"running", "failed", "returned"} =>
           ws.connects = <<StreamUrl[call.kwargs.endpoint[3]]>>
    /\ ws.wire = <<>>
    /\ pc = "returned" <=> LoopEnded

\* the DEPTH subscriber after a frame, a transport error and the closure
C21_Witness ==
    /\ pc = "returned"
    /\ call.kwargs.endpoint = Member("Endpoint", "DEPTH")
    /\ ws.connects = <<"wss://app.namebase.io:443/ws/v0/ticker/depth">>
    /\ ws.wire = <<>>
    /\ Len(ws.arrived) = 3
    /\ ws.arrived[2].kind = "error"
    /\ ws.arrived[3].kind = "close"

\* the handler the caller means for a kind of event: the one supplied, or
\* the module's printing default when none is supplied
HandlerFor(kind) ==
    LET n == CASE kind = "frame" -> "on_message"
               [] kind = "error" -> "on_error"
               [] kind = "close" -> "on_close"
    IN IF n \in DOMAIN call.kwargs THEN call.kwargs[n]
       ELSE <<"function", "_" \o n>>

(***************************************************************************)
(* C22: at every moment the handler calls made are, one for one and in     *)
(* arrival order, the events that have arrived on the connection: each     *)
(* text frame handed unchanged to the caller's on_message, each transport  *)
(* error to the caller's on_error, the closure to the caller's on_close,   *)
(* and to the module's default handler only where the caller supplied      *)
(* none; each call is carried out, and nothing is held back, dropped,      *)
(* altered or handed to another handler.                                   *)
(***************************************************************************)
C22_EventsForwarded ==
    /\ Len(ws.log) = Len(ws.arrived)
    /\ \A i \in DOMAIN ws.arrived :
           /\ ws.log[i].event = ws.arrived[i]
           /\ ws.log[i].handler = HandlerFor(ws.arrived[i].kind)
           /\ ~ws.log[i].raised
    /\ pc \in {"built", "running", "failed", "returned"} =>
           /\ ws.on_message = HandlerFor("frame")
           /\ ws.on_error = HandlerFor("error")
           /\ ws.on_close = HandlerFor("close")

====
